---- MODULE Spec2Model ----
(***************************************************************************)
(* The quota / subscription / session core of the transcription bot.      *)
(*                                                                         *)
(* The repository holds two variants of the same bot:                      *)
(*   "package" : src/bot/handlers.py over src/database/models.py and       *)
(*               src/processors/audio_processor.py                         *)
(*   "simple"  : src/bot_simple.py                                         *)
(* A run of the program is a run of one of them; `variant` is fixed by     *)
(* Init.  Every inbound event is one action that models the whole handler. *)
(*                                                                         *)
(* Time: `now` counts clock ticks, TicksPerDay of them make a calendar     *)
(* day; datetime.now() is `now`, CURRENT_DATE is Today(now).               *)
(***************************************************************************)
EXTENDS Integers, Sequences, FiniteSets, TLC

(* ------------------------------ bounds -------------------------------- *)

\* ticks per calendar day (resolution of the clock inside one day)
TicksPerDay == 1
\* the clock advances tick by tick up to MaxTick, and jumps to (or just past)
\* the end of a stored subscription
MaxTick == 1
\* events handled in one run (every handler run and every clock advance is one)
MaxEvents == 4
\* operations that fail in one run (a store call, a transport call, a collaborator)
MaxFaults == 1
\* handlers started in one run of the task-level specification
MaxTasks == 3

Users == {1, 2}
\* names tempfile.NamedTemporaryFile may give
Paths == {"/tmp/a", "/tmp/b", "/tmp/c"}
Langs == {"es"}

(* ------------------------- program constants -------------------------- *)

\* Config.DAILY_FREE_REQUESTS
DAILY_FREE_REQUESTS_PACKAGE == 1
\* bot_simple.DAILY_FREE_REQUESTS
DAILY_FREE_REQUESTS_SIMPLE == 3
\* duration_days of a subscription (default argument and the payment handler)
DURATION_DAYS == 30

\* the clock never passes MaxNow: one subscription period after the last tick
MaxNow == DURATION_DAYS * TicksPerDay + MaxTick

DAILY_FREE_REQUESTS(v) ==
    IF v = "package" THEN DAILY_FREE_REQUESTS_PACKAGE ELSE DAILY_FREE_REQUESTS_SIMPLE

(* ------------------------------- state -------------------------------- *)

VARIABLES
    variant,    \* "package" or "simple": which program runs
    db_pool,    \* the connection pool exists (simple: may be None)
    now,        \* the clock
    db,         \* the relational store: users, subs, usage, history, payments
    fsm_state,  \* FSMContext state per user (MemoryStorage)
    fsm_data,   \* FSMContext data per user (MemoryStorage): a dict
    tasks,      \* the handler coroutines started so far, each at its await point
    files,      \* temporary files that exist on disk
    events,     \* the number of events handled so far
    faults,     \* the number of operations that failed so far
    last        \* what the last handled event did and returned (observation)

vars ==
    <<variant, db_pool, now, db, fsm_state, fsm_data, tasks, files, events, faults, last>>

\* CURRENT_DATE at instant t
Today(t) == t \div TicksPerDay

\* timedelta(days = d), in ticks
Days(d) == d * TicksPerDay

\* a dict with no keys
EmptyDict == [k \in {} |-> ""]

\* a faulty dict.update: a key the dict already has keeps its value
DictUpdate_setdefault(d, upd) == d @@ upd

\* dict.update: the keys of `upd` overwrite, the others stay
DictUpdate(d, upd) == upd @@ d

(* ---------------------------- the store ------------------------------- *)
(* db.users    : the user ids that have a row in `users`                   *)
(* db.subs     : user_subscriptions, a function from the user ids that     *)
(*               have a row to [is_premium, subscription_start,            *)
(*               subscription_end]; a TIMESTAMP column is <<>> (NULL) or   *)
(*               <<t>>                                                     *)
(* db.usage    : daily_usage, a function from the <<user_id, usage_date>>  *)
(*               that have a row to requests_count                         *)
(* db.history  : request_history, in insertion order                       *)
(* db.payments : payment_records, in insertion order                       *)
(*                                                                         *)
(* Every operation takes `up`: the store answers this call.  When it does  *)
(* not, the call fails before it reads or writes anything.                 *)
(* An operation returns [db, ret, raised]: the store after it, the value   *)
(* returned, and whether it raised instead of returning.                   *)
(***************************************************************************)

EmptyDb ==
    [users |-> {}, subs |-> EmptyDict, usage |-> EmptyDict,
     history |-> <<>>, payments |-> <<>>]

Returned(d, r) == [db |-> d, ret |-> r, raised |-> FALSE]
Raised(d, r) == [db |-> d, ret |-> r, raised |-> TRUE]

\* the row INSERT INTO user_subscriptions (user_id, is_premium) VALUES (u, FALSE) makes
DefaultSubscription == [is_premium |-> FALSE, sub_start |-> <<>>, sub_end |-> <<>>]

\* a faulty activation: subscription_end = datetime.now(), the duration left out
ActiveSubscription_no_duration(t, duration_days) ==
    [is_premium |-> TRUE, sub_start |-> <<t>>, sub_end |-> <<t>>]

\* the row an activation at instant t for duration_days writes
ActiveSubscription(t, duration_days) ==
    [is_premium |-> TRUE, sub_start |-> <<t>>, sub_end |-> <<t + Days(duration_days)>>]

\* a faulty read: SELECT requests_count FROM daily_usage WHERE user_id = u,
\* with no usage_date condition (fetchrow returns a row of any date)
SelectUsage_any_date(d, u, t) ==
    LET rows == {k \in DOMAIN d.usage : k[1] = u} IN
    IF rows = {} THEN 0
    ELSE d.usage[CHOOSE k \in rows : \A j \in rows : d.usage[k] >= d.usage[j]]

\* SELECT requests_count FROM daily_usage WHERE user_id = u AND usage_date = CURRENT_DATE
SelectUsage(d, u, t) ==
    IF <<u, Today(t)>> \in DOMAIN d.usage THEN d.usage[<<u, Today(t)>>] ELSE 0

\* a faulty upsert: ON CONFLICT (user_id, usage_date) DO NOTHING
UpsertUsage_do_nothing(d, u, t) ==
    LET key == <<u, Today(t)>> IN
    IF key \in DOMAIN d.usage THEN d
    ELSE [d EXCEPT !.usage = (key :> 1) @@ d.usage]

\* a faulty upsert: INSERT INTO daily_usage (user_id) VALUES (u), which leaves
\* a new row at the column default, requests_count = 0
UpsertUsage_column_default(d, u, t) ==
    LET key == <<u, Today(t)>> IN
    IF key \in DOMAIN d.usage
    THEN [d EXCEPT !.usage = [d.usage EXCEPT ![key] = @ + 1]]
    ELSE [d EXCEPT !.usage = (key :> 0) @@ d.usage]

\* INSERT INTO daily_usage (user_id, requests_count) VALUES (u, 1)
\*   ON CONFLICT (user_id, usage_date) DO UPDATE SET requests_count = requests_count + 1
UpsertUsage(d, u, t) ==
    LET key == <<u, Today(t)>> IN
    IF key \in DOMAIN d.usage
    THEN [d EXCEPT !.usage = [d.usage EXCEPT ![key] = @ + 1]]
    ELSE [d EXCEPT !.usage = (key :> 1) @@ d.usage]

\* a faulty comparison: result['subscription_end'] <= datetime.now()
SubscriptionExpired_inclusive(row, t) ==
    /\ row.sub_end # <<>>
    /\ row.sub_end[1] <= t

\* result['subscription_end'] and result['subscription_end'] < datetime.now()
SubscriptionExpired(row, t) ==
    /\ row.sub_end # <<>>
    /\ row.sub_end[1] < t

(* ---------------- src/database/models.py: class Database -------------- *)

\* a faulty get_or_create_user: the subscription row is written on every call,
\* INSERT ... VALUES (u, FALSE) ON CONFLICT (user_id) DO UPDATE SET is_premium = FALSE
Database_get_or_create_user_resets(d, u, up) ==
    IF ~up THEN Raised(d, FALSE)
    ELSE Returned([d EXCEPT !.users = @ \cup {u},
                            !.subs = (u :> DefaultSubscription) @@ d.subs], TRUE)

Database_get_or_create_user(d, u, up) ==
    IF ~up THEN Raised(d, FALSE)
    ELSE IF u \in d.users THEN Returned(d, TRUE)
    ELSE Returned([d EXCEPT !.users = @ \cup {u},
                            !.subs = (u :> DefaultSubscription) @@ d.subs], TRUE)

Database_get_daily_usage(d, u, t, up) ==
    IF ~up THEN Raised(d, 0) ELSE Returned(d, SelectUsage(d, u, t))

\* daily_usage.user_id REFERENCES users(user_id): the insert of a row for a
\* user id that has no row in `users` is a foreign-key violation
Database_increment_daily_usage(d, u, t, up) ==
    IF ~up \/ u \notin d.users THEN Raised(d, 0)
    ELSE LET d2 == UpsertUsage(d, u, t) IN Returned(d2, SelectUsage(d2, u, t))

\* a faulty is_user_premium: the stored flag is returned, the end is not looked at
Database_is_user_premium_flag_only(d, u, t, up) ==
    IF ~up THEN Raised(d, FALSE)
    ELSE IF u \notin DOMAIN d.subs \/ ~d.subs[u].is_premium THEN Returned(d, FALSE)
    ELSE Returned(d, TRUE)

Database_is_user_premium(d, u, t, up) ==
    IF ~up THEN Raised(d, FALSE)
    ELSE IF u \notin DOMAIN d.subs \/ ~d.subs[u].is_premium THEN Returned(d, FALSE)
    ELSE IF SubscriptionExpired(d.subs[u], t)
         THEN Returned([d EXCEPT !.subs[u].is_premium = FALSE], FALSE)
    ELSE Returned(d, TRUE)

\* UPDATE user_subscriptions SET ... WHERE user_id = u: no row, no change
Database_activate_premium_subscription(d, u, t, duration_days, up) ==
    IF ~up THEN Raised(d, FALSE)
    ELSE IF u \in DOMAIN d.subs
         THEN Returned([d EXCEPT !.subs[u] = ActiveSubscription(t, duration_days)], TRUE)
    ELSE Returned(d, TRUE)

\* a faulty can_make_request: daily_usage <= Config.DAILY_FREE_REQUESTS
Database_can_make_request_inclusive(d, u, t, upPremium, upUsage) ==
    LET p == Database_is_user_premium(d, u, t, upPremium)
        g == Database_get_daily_usage(p.db, u, t, upUsage)
    IN  IF p.raised
        THEN [db |-> p.db, allowed |-> FALSE, type |-> "raised", raised |-> TRUE]
        ELSE IF p.ret
        THEN [db |-> p.db, allowed |-> TRUE, type |-> "premium", raised |-> FALSE]
        ELSE IF g.raised
        THEN [db |-> g.db, allowed |-> FALSE, type |-> "raised", raised |-> TRUE]
        ELSE IF g.ret <= DAILY_FREE_REQUESTS_PACKAGE
        THEN [db |-> g.db, allowed |-> TRUE, type |-> "free", raised |-> FALSE]
        ELSE [db |-> g.db, allowed |-> FALSE, type |-> "limit_exceeded", raised |-> FALSE]

\* a faulty can_make_request: the request is counted when it is allowed as free
Database_can_make_request_counting(d, u, t, upPremium, upUsage) ==
    LET p == Database_is_user_premium(d, u, t, upPremium)
        g == Database_get_daily_usage(p.db, u, t, upUsage)
    IN  IF p.raised
        THEN [db |-> p.db, allowed |-> FALSE, type |-> "raised", raised |-> TRUE]
        ELSE IF p.ret
        THEN [db |-> p.db, allowed |-> TRUE, type |-> "premium", raised |-> FALSE]
        ELSE IF g.raised
        THEN [db |-> g.db, allowed |-> FALSE, type |-> "raised", raised |-> TRUE]
        ELSE IF g.ret < DAILY_FREE_REQUESTS_PACKAGE
        THEN [db |-> UpsertUsage(g.db, u, t), allowed |-> TRUE, type |-> "free",
              raised |-> FALSE]
        ELSE [db |-> g.db, allowed |-> FALSE, type |-> "limit_exceeded", raised |-> FALSE]

\* returns [db, allowed, type, raised]
Database_can_make_request(d, u, t, upPremium, upUsage) ==
    LET p == Database_is_user_premium(d, u, t, upPremium)
        g == Database_get_daily_usage(p.db, u, t, upUsage)
    IN  IF p.raised
        THEN [db |-> p.db, allowed |-> FALSE, type |-> "raised", raised |-> TRUE]
        ELSE IF p.ret
        THEN [db |-> p.db, allowed |-> TRUE, type |-> "premium", raised |-> FALSE]
        ELSE IF g.raised
        THEN [db |-> g.db, allowed |-> FALSE, type |-> "raised", raised |-> TRUE]
        ELSE IF g.ret < DAILY_FREE_REQUESTS_PACKAGE
        THEN [db |-> g.db, allowed |-> TRUE, type |-> "free", raised |-> FALSE]
        ELSE [db |-> g.db, allowed |-> FALSE, type |-> "limit_exceeded", raised |-> FALSE]

\* request_history.user_id REFERENCES users(user_id)
Database_add_request_history(d, u, rec, up) ==
    IF ~up \/ u \notin d.users THEN Raised(d, FALSE)
    ELSE Returned([d EXCEPT !.history = Append(@, rec)], TRUE)

(* ----------------- src/bot_simple.py: the store functions ------------- *)
(* `pool` is db_pool: with no pool a function returns its default at once; *)
(* with one, any failure is caught and the same default returned.          *)

simple_get_daily_usage(pool, d, u, t, up) ==
    IF ~pool \/ ~up THEN Returned(d, 0) ELSE Returned(d, SelectUsage(d, u, t))

simple_increment_daily_usage(pool, d, u, t, up) ==
    IF ~pool \/ ~up THEN Returned(d, 1)
    ELSE LET d2 == UpsertUsage(d, u, t) IN Returned(d2, SelectUsage(d2, u, t))

simple_is_user_premium(pool, d, u, t, up) ==
    IF ~pool \/ ~up THEN Returned(d, FALSE)
    ELSE IF u \notin DOMAIN d.subs
         THEN Returned([d EXCEPT !.subs = (u :> DefaultSubscription) @@ d.subs], FALSE)
    ELSE IF ~d.subs[u].is_premium THEN Returned(d, FALSE)
    ELSE IF SubscriptionExpired(d.subs[u], t)
         THEN Returned([d EXCEPT !.subs[u].is_premium = FALSE], FALSE)
    ELSE Returned(d, TRUE)

\* a faulty activation: ... ON CONFLICT (user_id) DO UPDATE SET
\* subscription_end = CURRENT_TIMESTAMP, the duration given to a new row only
simple_activate_premium_subscription_conflict_now(pool, d, u, t, duration_days, up) ==
    IF ~pool \/ ~up THEN Returned(d, FALSE)
    ELSE IF u \in DOMAIN d.subs
    THEN Returned([d EXCEPT !.subs[u] = ActiveSubscription_no_duration(t, duration_days)],
                  TRUE)
    ELSE Returned([d EXCEPT !.subs =
                      (u :> ActiveSubscription(t, duration_days)) @@ d.subs], TRUE)

\* INSERT ... ON CONFLICT (user_id) DO UPDATE: the row is written either way
simple_activate_premium_subscription(pool, d, u, t, duration_days, up) ==
    IF ~pool \/ ~up THEN Returned(d, FALSE)
    ELSE Returned([d EXCEPT !.subs =
                      (u :> ActiveSubscription(t, duration_days)) @@ d.subs], TRUE)

simple_save_payment_record(pool, d, u, up) ==
    IF ~pool \/ ~up THEN Returned(d, FALSE)
    ELSE Returned([d EXCEPT !.payments = Append(@, u)], TRUE)

simple_can_make_request(pool, d, u, t, upPremium, upUsage) ==
    LET p == simple_is_user_premium(pool, d, u, t, upPremium)
        g == simple_get_daily_usage(pool, p.db, u, t, upUsage)
    IN  IF p.ret
        THEN [db |-> p.db, allowed |-> TRUE, type |-> "premium", raised |-> FALSE]
        ELSE IF g.ret < DAILY_FREE_REQUESTS_SIMPLE
        THEN [db |-> g.db, allowed |-> TRUE, type |-> "free", raised |-> FALSE]
        ELSE [db |-> g.db, allowed |-> FALSE, type |-> "limit_exceeded", raised |-> FALSE]

(* --------------------------- observation ------------------------------ *)
(* `last` records the event handled last: the handler, its user, whether   *)
(* an operation was made to fail in it (faulted) and which (failed), what   *)
(* can_make_request                                                        *)
(* returned (allowed, type; "none" when it was not called, "raised" when   *)
(* it raised), the status shown to the user last (outcome), the calls made *)
(* to the transport's file lookup and to the collaborators, whether the    *)
(* user's session held a transcription when the handler began              *)
(* (had_session), the transcription and file path the handler wrote to or  *)
(* read from the session, whether it wrote the session (opened), whether   *)
(* it ran the ledger's upsert to the end (incremented), whether it         *)
(* appended a history row (recorded), and the free_requests /start showed. *)

Obs(h, u, fault) ==
    [handler |-> h, user |-> u, faulted |-> (fault # "none"), failed |-> fault,
     allowed |-> FALSE,
     type |-> "none", outcome |-> "none", calls |-> {}, had_session |-> FALSE,
     text |-> "", path |-> "", opened |-> FALSE, incremented |-> FALSE,
     recorded |-> FALSE, free_requests |-> 0]

\* 'transcription' in data
HasSession(data) == "transcription" \in DOMAIN data

\* what a handler leaves: the store, the user's FSM state and data, the files, the record
Left(d, st, data, fs, o) == [db |-> d, st |-> st, data |-> data, files |-> fs, obs |-> o]

\* os.path.exists(path) and os.remove(path)
RemoveFile(fs, path) == fs \ {path}

(* ----------------------- the uploaded message ------------------------- *)
(* An upload is one of: an audio file, a video file, a message whose       *)
(* content carries no file info, a file above MAX_FILE_SIZE_MB, a file     *)
(* whose extension is in neither supported set.                            *)
Uploads == {"audio", "video", "no_file_info", "too_large", "unsupported"}

\* what the transcription service hears in the upload: the audio file and the
\* video file carry different speech
Speech(upload) == IF upload = "video" THEN "t2" ELSE "t1"

Filename(upload) == IF upload = "video" THEN "f.mp4" ELSE "f.mp3"

\* get_file_format(filename)[0], for the uploads that pass the size check
get_file_format(upload) ==
    CASE upload = "audio" -> "audio"
      [] upload = "video" -> "video"
      [] OTHER -> "unsupported"

(* ------------- src/processors/audio_processor.py: process_file -------- *)
(* Returns [transcription, status, calls].  `text` is what the             *)
(* transcription service returns when it answers.  The temporary audio     *)
(* file of an extraction is removed before process_file returns.           *)
AudioProcessor_process_file(upload, text, fault) ==
    LET needs_extraction == (get_file_format(upload) = "video")
        c0 == IF needs_extraction THEN {"extract"} ELSE {}
    IN  IF needs_extraction /\ fault = "extract"
        THEN [transcription |-> "", status |-> "extraction_failed", calls |-> c0]
        ELSE IF fault = "transcribe"
        THEN [transcription |-> "", status |-> "transcription_failed",
              calls |-> c0 \cup {"transcribe"}]
        ELSE IF fault = "translate"
        THEN [transcription |-> text, status |-> "translation_failed",
              calls |-> c0 \cup {"transcribe", "translate"}]
        ELSE [transcription |-> text, status |-> "success",
              calls |-> c0 \cup {"transcribe", "translate"}]

(* ---------------- src/bot/handlers.py: handle_media_file -------------- *)

\* a faulty update_data: file_path is given the upload's name, not downloaded_path
handlers_session_data_filename(transcription, path, upload) ==
    [transcription |-> transcription, file_path |-> Filename(upload),
     filename |-> Filename(upload), file_type |-> get_file_format(upload)]

\* state.update_data({...}) of handle_media_file
\* (start_time, a wall-clock reading used only for the processing_time column
\* of the history row, is left out with that column)
handlers_session_data(transcription, path, upload) ==
    [transcription |-> transcription, file_path |-> path, filename |-> Filename(upload),
     file_type |-> get_file_format(upload)]

\* a faulty charge: the ledger is written whatever the request type
handlers_charge_always(d, u, t, request_type, up) ==
    Database_increment_daily_usage(d, u, t, up)

\* lines 164-166: if request_type != "premium": increment_daily_usage
handlers_charge(d, u, t, request_type, up) ==
    IF request_type # "premium" THEN Database_increment_daily_usage(d, u, t, up)
    ELSE Returned(d, 0)

\* lines 113-178: the try block, entered once the upload passed every check.
\* `ev` is what can_make_request returned, `p` the temporary file's name.
handlers_media_try(d, st, data, fs, u, t, upload, fault, p, text, ev, o) ==
    LET pf == AudioProcessor_process_file(upload, text, fault)
        c2 == {"get_file", "download"}
        err(calls) == [o EXCEPT !.outcome = "processing_error", !.calls = calls]
        new == DictUpdate(data, handlers_session_data(pf.transcription, p, upload))
        inc == handlers_charge(d, u, t, ev.type, fault # "increment_daily_usage")
        opened == [o EXCEPT !.calls = c2 \cup pf.calls, !.opened = TRUE,
                            !.text = pf.transcription, !.path = p]
    IN  IF fault = "get_file" THEN Left(d, st, data, fs, err({"get_file"}))
        \* from here on temp_path is bound and the finally clause removes the file
        ELSE IF fault = "download" THEN Left(d, st, data, RemoveFile(fs \cup {p}, p), err(c2))
        ELSE IF fault = "edit_transcribing"
        THEN Left(d, st, data, RemoveFile(fs \cup {p}, p), err(c2))
        ELSE IF pf.status # "success" \/ pf.transcription = ""
        THEN Left(d, st, data, RemoveFile(fs \cup {p}, p),
                  [o EXCEPT !.calls = c2 \cup pf.calls,
                            !.outcome = IF pf.status = "transcription_failed"
                                        THEN "no_transcription" ELSE "processing_error"])
        ELSE IF fault \in {"edit_complete", "set_state"}
        THEN Left(d, st, data, RemoveFile(fs \cup {p}, p), err(c2 \cup pf.calls))
        ELSE IF fault = "update_data"
        THEN Left(d, "waiting_for_language", data, RemoveFile(fs \cup {p}, p),
                  err(c2 \cup pf.calls))
        ELSE IF inc.raised
        THEN Left(inc.db, "waiting_for_language", new, RemoveFile(fs \cup {p}, p),
                  [opened EXCEPT !.outcome = "processing_error"])
        ELSE Left(inc.db, "waiting_for_language", new, RemoveFile(fs \cup {p}, p),
                  [opened EXCEPT !.outcome = "transcription_complete",
                                 !.incremented = (ev.type # "premium")])

\* a faulty handler: the answer of can_make_request is shown but not obeyed
handlers_handle_media_file_no_return(d, st, data, fs, u, t, upload, fault, p, text) ==
    LET ev == Database_can_make_request(d, u, t, fault # "is_user_premium",
                                        fault # "get_daily_usage")
        o == [Obs("media", u, fault) EXCEPT !.allowed = ev.allowed, !.type = ev.type,
                                            !.had_session = HasSession(data)]
    IN  IF ev.raised
        THEN Left(ev.db, st, data, fs, [o EXCEPT !.outcome = "unhandled_exception"])
        ELSE handlers_media_try(ev.db, st, data, fs, u, t, "audio", fault, p, text, ev, o)

\* a faulty handler: a rejected upload ends the user's session (state.clear())
handlers_handle_media_file_clears(d, st, data, fs, u, t, upload, fault, p, text) ==
    LET ev == Database_can_make_request(d, u, t, fault # "is_user_premium",
                                        fault # "get_daily_usage")
        o == [Obs("media", u, fault) EXCEPT !.allowed = ev.allowed, !.type = ev.type,
                                            !.had_session = HasSession(data)]
    IN  IF ev.raised
        THEN Left(ev.db, st, data, fs, [o EXCEPT !.outcome = "unhandled_exception"])
        ELSE IF ~ev.allowed
        THEN Left(ev.db, "None", EmptyDict, fs, [o EXCEPT !.outcome = "limit_reached"])
        ELSE IF upload = "no_file_info"
        THEN Left(ev.db, "None", EmptyDict, fs, [o EXCEPT !.outcome = "unsupported_format"])
        ELSE IF upload = "too_large"
        THEN Left(ev.db, "None", EmptyDict, fs, [o EXCEPT !.outcome = "file_too_large"])
        ELSE IF get_file_format(upload) = "unsupported"
        THEN Left(ev.db, "None", EmptyDict, fs, [o EXCEPT !.outcome = "unsupported_format"])
        ELSE handlers_media_try(ev.db, st, data, fs, u, t, upload, fault, p, text, ev, o)

\* lines 53-178
handlers_handle_media_file(d, st, data, fs, u, t, upload, fault, p, text) ==
    LET ev == Database_can_make_request(d, u, t, fault # "is_user_premium",
                                        fault # "get_daily_usage")
        o == [Obs("media", u, fault) EXCEPT !.allowed = ev.allowed, !.type = ev.type,
                                            !.had_session = HasSession(data)]
    IN  IF ev.raised
        THEN Left(ev.db, st, data, fs, [o EXCEPT !.outcome = "unhandled_exception"])
        ELSE IF ~ev.allowed
        THEN Left(ev.db, st, data, fs, [o EXCEPT !.outcome = "limit_reached"])
        ELSE IF upload = "no_file_info"
        THEN Left(ev.db, st, data, fs, [o EXCEPT !.outcome = "unsupported_format"])
        ELSE IF upload = "too_large"
        THEN Left(ev.db, st, data, fs, [o EXCEPT !.outcome = "file_too_large"])
        ELSE IF get_file_format(upload) = "unsupported"
        THEN Left(ev.db, st, data, fs, [o EXCEPT !.outcome = "unsupported_format"])
        ELSE handlers_media_try(ev.db, st, data, fs, u, t, upload, fault, p, text, ev, o)

(* ---------------- src/bot_simple.py: handle_media_file ---------------- *)

\* state.update_data({...}) of handle_media_file
simple_session_data(transcription, path, upload) ==
    [transcription |-> transcription, file_path |-> path, filename |-> Filename(upload)]

\* lines 509-511: if request_type != "premium": increment_daily_usage
simple_charge(pool, d, u, t, request_type, up) ==
    IF request_type # "premium" THEN simple_increment_daily_usage(pool, d, u, t, up)
    ELSE Returned(d, 0)

\* lines 467-523: the try block
simple_media_try(pool, d, st, data, fs, u, t, upload, fault, p, text, ev, o) ==
    LET c2 == {"get_file", "download"}
        c3 == c2 \cup {"transcribe"}
        err(calls) == [o EXCEPT !.outcome = "processing_error", !.calls = calls]
        new == DictUpdate(data, simple_session_data(text, p, upload))
        inc == simple_charge(pool, d, u, t, ev.type, fault # "increment_daily_usage")
        opened == [o EXCEPT !.calls = c3, !.opened = TRUE, !.text = text, !.path = p,
                            !.outcome = "transcription_complete"]
    IN  IF fault = "get_file" THEN Left(d, st, data, fs, err({"get_file"}))
        ELSE IF fault = "download" THEN Left(d, st, data, RemoveFile(fs \cup {p}, p), err(c2))
        ELSE IF fault = "edit_transcribing"
        THEN Left(d, st, data, RemoveFile(fs \cup {p}, p), err(c2))
        ELSE IF fault = "transcribe" \/ text = ""
        THEN Left(d, st, data, RemoveFile(fs \cup {p}, p),
                  [o EXCEPT !.calls = c3, !.outcome = "no_transcription"])
        ELSE IF fault \in {"edit_complete", "set_state"}
        THEN Left(d, st, data, RemoveFile(fs \cup {p}, p), err(c3))
        ELSE IF fault = "update_data"
        THEN Left(d, "waiting_for_language", data, RemoveFile(fs \cup {p}, p), err(c3))
        \* increment_daily_usage catches its own failure: the handler goes on
        ELSE Left(inc.db, "waiting_for_language", new, RemoveFile(fs \cup {p}, p),
                  [opened EXCEPT !.incremented = (/\ ev.type # "premium"
                                                  /\ pool
                                                  /\ fault # "increment_daily_usage")])

\* lines 409-523
simple_handle_media_file(pool, d, st, data, fs, u, t, upload, fault, p, text) ==
    LET ev == simple_can_make_request(pool, d, u, t, fault # "is_user_premium",
                                      fault # "get_daily_usage")
        o == [Obs("media", u, fault) EXCEPT !.allowed = ev.allowed, !.type = ev.type,
                                            !.had_session = HasSession(data)]
    IN  IF ~ev.allowed
        THEN Left(ev.db, st, data, fs, [o EXCEPT !.outcome = "limit_reached"])
        ELSE IF upload = "no_file_info"
        THEN Left(ev.db, st, data, fs, [o EXCEPT !.outcome = "unsupported_format"])
        ELSE IF upload = "too_large"
        THEN Left(ev.db, st, data, fs, [o EXCEPT !.outcome = "file_too_large"])
        ELSE IF get_file_format(upload) = "unsupported"
        THEN Left(ev.db, st, data, fs, [o EXCEPT !.outcome = "unsupported_format"])
        ELSE simple_media_try(pool, ev.db, st, data, fs, u, t, upload, fault, p, text, ev, o)

(* ------------------------ handle_translation -------------------------- *)

\* translate_text(transcription, lang_name), when the service answers
Translation(transcription, lang) == <<transcription, lang>>

\* data.get('file_path')
DictGetPath(data) == IF "file_path" \in DOMAIN data THEN data.file_path ELSE ""

\* the request_history row of handlers.py lines 242-250
HistoryRow(u, data, lang) ==
    [user_id |-> u,
     file_type |-> IF "file_type" \in DOMAIN data THEN data.file_type ELSE "unknown",
     target_lang |-> lang, transcription |-> data.transcription,
     translation |-> Translation(data.transcription, lang)]

\* handle_translation without the check of lines 216-218: with no transcription
\* in the session it goes on to the translator, fails and runs the finally clause
handlers_handle_translation_no_check(d, st, data, fs, u, t, lang, fault) ==
    LET o == [Obs("translation", u, fault) EXCEPT !.had_session = HasSession(data)]
        hist == Database_add_request_history(d, u, HistoryRow(u, data, lang),
                                             fault # "add_request_history")
        got == [o EXCEPT !.text = data.transcription, !.path = DictGetPath(data),
                         !.calls = {"translate"}]
        cleared == RemoveFile(fs, DictGetPath(data))
    IN  IF ~HasSession(data)
        THEN Left(d, "None", EmptyDict, fs,
                  [o EXCEPT !.calls = {"translate"}, !.outcome = "translation_failed"])
        ELSE IF fault = "edit_translating"
        THEN Left(d, st, data, fs, [got EXCEPT !.calls = {},
                                               !.outcome = "unhandled_exception"])
        ELSE IF fault \in {"translate", "edit_complete"}
        THEN Left(d, "None", EmptyDict, cleared, [got EXCEPT !.outcome = "translation_failed"])
        ELSE IF hist.raised
        THEN Left(hist.db, "None", EmptyDict, cleared,
                  [got EXCEPT !.outcome = "translation_failed"])
        ELSE Left(hist.db, "None", EmptyDict, cleared,
                  [got EXCEPT !.outcome = "translation_complete", !.recorded = TRUE])

\* handle_translation without its finally clause (lines 262-269): a failed
\* translation shows translation_failed and leaves the session and the file
handlers_handle_translation_no_finally(d, st, data, fs, u, t, lang, fault) ==
    LET o == [Obs("translation", u, fault) EXCEPT !.had_session = HasSession(data)]
        hist == Database_add_request_history(d, u, HistoryRow(u, data, lang),
                                             fault # "add_request_history")
        got == [o EXCEPT !.text = data.transcription, !.path = DictGetPath(data),
                         !.calls = {"translate"}]
    IN  IF ~HasSession(data)
        THEN Left(d, st, data, fs, [o EXCEPT !.outcome = "session_expired"])
        ELSE IF fault = "edit_translating"
        THEN Left(d, st, data, fs, [got EXCEPT !.calls = {},
                                               !.outcome = "unhandled_exception"])
        ELSE IF fault \in {"translate", "edit_complete"}
        THEN Left(d, st, data, fs, [got EXCEPT !.outcome = "translation_failed"])
        ELSE IF hist.raised
        THEN Left(hist.db, st, data, fs, [got EXCEPT !.outcome = "translation_failed"])
        ELSE Left(hist.db, st, data, fs,
                  [got EXCEPT !.outcome = "translation_complete", !.recorded = TRUE])

\* src/bot/handlers.py lines 208-271
handlers_handle_translation(d, st, data, fs, u, t, lang, fault) ==
    LET o == [Obs("translation", u, fault) EXCEPT !.had_session = HasSession(data)]
        hist == Database_add_request_history(d, u, HistoryRow(u, data, lang),
                                             fault # "add_request_history")
        got == [o EXCEPT !.text = data.transcription, !.path = DictGetPath(data),
                         !.calls = {"translate"}]
        \* the finally clause: state.clear(), then the file is removed if it exists
        cleared == RemoveFile(fs, DictGetPath(data))
    IN  IF ~HasSession(data)
        THEN Left(d, st, data, fs, [o EXCEPT !.outcome = "session_expired"])
        \* edit_text('translating') is awaited before the try: what it raises
        \* leaves the handler, and the finally clause is never entered
        ELSE IF fault = "edit_translating"
        THEN Left(d, st, data, fs, [got EXCEPT !.calls = {},
                                               !.outcome = "unhandled_exception"])
        ELSE IF fault \in {"translate", "edit_complete"}
        THEN Left(d, "None", EmptyDict, cleared, [got EXCEPT !.outcome = "translation_failed"])
        ELSE IF hist.raised
        THEN Left(hist.db, "None", EmptyDict, cleared,
                  [got EXCEPT !.outcome = "translation_failed"])
        ELSE Left(hist.db, "None", EmptyDict, cleared,
                  [got EXCEPT !.outcome = "translation_complete", !.recorded = TRUE])

\* src/bot_simple.py lines 552-603: no history is kept
simple_handle_translation(d, st, data, fs, u, t, lang, fault) ==
    LET o == [Obs("translation", u, fault) EXCEPT !.had_session = HasSession(data)]
        got == [o EXCEPT !.text = data.transcription, !.path = DictGetPath(data),
                         !.calls = {"translate"}]
        cleared == RemoveFile(fs, DictGetPath(data))
    IN  IF ~HasSession(data)
        THEN Left(d, st, data, fs, [o EXCEPT !.outcome = "session_expired"])
        \* edit_text('translating') is awaited before the try: what it raises
        \* leaves the handler, and the finally clause is never entered
        ELSE IF fault = "edit_translating"
        THEN Left(d, st, data, fs, [got EXCEPT !.calls = {},
                                               !.outcome = "unhandled_exception"])
        ELSE IF fault \in {"translate", "edit_complete"}
        THEN Left(d, "None", EmptyDict, cleared, [got EXCEPT !.outcome = "translation_failed"])
        ELSE Left(d, "None", EmptyDict, cleared, [got EXCEPT !.outcome = "translation_complete"])

(* --------------------------- handle_cancel ---------------------------- *)
\* src/bot/handlers.py lines 273-290 and src/bot_simple.py lines 605-623
\* handle_cancel without `await state.clear()`
handle_cancel_no_clear(d, st, data, fs, u) ==
    Left(d, st, data,
         IF "file_path" \in DOMAIN data THEN RemoveFile(fs, data.file_path) ELSE fs,
         [Obs("cancel", u, "none") EXCEPT !.outcome = "deleted", !.path = DictGetPath(data),
                                          !.had_session = HasSession(data)])

handle_cancel(d, st, data, fs, u) ==
    Left(d, "None", EmptyDict,
         IF "file_path" \in DOMAIN data THEN RemoveFile(fs, data.file_path) ELSE fs,
         [Obs("cancel", u, "none") EXCEPT !.outcome = "deleted", !.path = DictGetPath(data),
                                          !.had_session = HasSession(data)])

(* ---------------------------- /start, /status ------------------------- *)

\* src/bot/handlers.py lines 24-45
handlers_start_command(d, u, t, fault) ==
    LET c == Database_get_or_create_user(d, u, fault # "get_or_create_user")
        ev == Database_can_make_request(c.db, u, t, fault # "is_user_premium",
                                        fault # "get_daily_usage")
        g == Database_get_daily_usage(ev.db, u, t, fault # "get_daily_usage")
        o == Obs("start", u, fault)
    IN  IF c.raised THEN [db |-> c.db, obs |-> [o EXCEPT !.outcome = "unhandled_exception"]]
        ELSE IF ev.raised
        THEN [db |-> ev.db, obs |-> [o EXCEPT !.outcome = "unhandled_exception",
                                              !.type = ev.type]]
        ELSE IF ev.type = "premium"
        THEN [db |-> ev.db, obs |-> [o EXCEPT !.outcome = "start", !.allowed = ev.allowed,
                                              !.type = ev.type]]
        ELSE [db |-> g.db, obs |-> [o EXCEPT !.outcome = "start", !.allowed = ev.allowed,
                                             !.type = ev.type,
                                             !.free_requests =
                                                 DAILY_FREE_REQUESTS_PACKAGE - g.ret]]

Max(a, b) == IF a >= b THEN a ELSE b

\* src/bot_simple.py lines 346-363 (/status, lines 370-407, makes the same two
\* store calls and shows the same number)
simple_start_command(pool, d, u, t, fault) ==
    LET p == simple_is_user_premium(pool, d, u, t, fault # "is_user_premium")
        g == simple_get_daily_usage(pool, p.db, u, t, fault # "get_daily_usage")
        o == [Obs("start", u, fault) EXCEPT !.outcome = "start"]
    IN  IF p.ret THEN [db |-> p.db, obs |-> [o EXCEPT !.type = "premium"]]
        ELSE [db |-> g.db,
              obs |-> [o EXCEPT !.free_requests = Max(0, DAILY_FREE_REQUESTS_SIMPLE - g.ret)]]

(* ------------------------------ payment ------------------------------- *)

\* src/bot_simple.py lines 689-726
simple_handle_successful_payment(pool, d, u, t, fault) ==
    LET s1 == simple_save_payment_record(pool, d, u, fault # "save_payment_record")
        a == simple_activate_premium_subscription(pool, s1.db, u, t, DURATION_DAYS,
                                                  fault # "activate_premium_subscription")
        o == Obs("payment", u, fault)
    IN  [db |-> a.db,
         obs |-> [o EXCEPT !.outcome = IF fault = "answer" THEN "payment_error"
                                       ELSE "payment_successful"]]

(* ------------------------------ actions ------------------------------- *)

\* can_make_request(u) as the store answers it now
Evaluate(u) ==
    IF variant = "package" THEN Database_can_make_request(db, u, now, TRUE, TRUE)
    ELSE simple_can_make_request(db_pool, db, u, now, TRUE, TRUE)

(* The operations a handler run may find failing are the ones it executes. *)

\* handle_media_file for `upload`, where can_make_request would answer ev: the
\* store reads of can_make_request (get_daily_usage unless premium), and, for an
\* upload that passes the checks after an allowed answer, the transport's file
\* lookup, the download, the two status updates, the audio extraction (a
\* video, bot/handlers.py), the transcription, the translation inside
\* process_file (bot/handlers.py), the two session writes and, unless premium,
\* the ledger write.  bot_simple.py makes no store call when it has no pool.
MediaFaults(v, pool, upload, ev) ==
    {"none"}
    \cup (IF pool THEN {"is_user_premium"} ELSE {})
    \cup (IF pool /\ ev.type # "premium" THEN {"get_daily_usage"} ELSE {})
    \cup (IF ev.allowed /\ upload \in {"audio", "video"}
          THEN {"get_file", "download", "edit_transcribing", "transcribe",
                "edit_complete", "set_state", "update_data"}
               \cup (IF pool /\ ev.type # "premium" THEN {"increment_daily_usage"} ELSE {})
               \cup (IF v = "package" THEN {"translate"} ELSE {})
               \cup (IF v = "package" /\ upload = "video" THEN {"extract"} ELSE {})
          ELSE {})

\* handle_translation: nothing is called without a session
TranslationFaults(v, data) ==
    {"none"}
    \cup (IF HasSession(data) THEN {"edit_translating", "translate", "edit_complete"}
          ELSE {})
    \cup (IF HasSession(data) /\ v = "package" THEN {"add_request_history"} ELSE {})

\* /start: get_daily_usage is read unless premium
StartFaults(v, pool, ev) ==
    {"none"}
    \cup (IF v = "package" THEN {"get_or_create_user"} ELSE {})
    \cup (IF pool THEN {"is_user_premium"} ELSE {})
    \cup (IF pool /\ ev.type # "premium" THEN {"get_daily_usage"} ELSE {})

\* handle_successful_payment
PaymentFaults(pool) ==
    {"none", "answer"}
    \cup (IF pool THEN {"save_payment_record", "activate_premium_subscription"} ELSE {})

ActivateFaults == {"none", "activate_premium_subscription"}

Init ==
    /\ variant \in {"package", "simple"}
    \* bot/main.py returns without DATABASE_URL and connect() raises without a
    \* store; bot_simple.py goes on with db_pool = None
    /\ db_pool \in IF variant = "package" THEN {TRUE} ELSE BOOLEAN
    /\ now = 0
    /\ db = EmptyDb
    /\ fsm_state = [u \in Users |-> "None"]
    /\ fsm_data = [u \in Users |-> EmptyDict]
    /\ tasks = <<>>
    /\ files = {}
    /\ events = 0
    /\ faults = 0
    /\ last = Obs("none", 0, "none")

\* one more event is handled, in which `fault` fails ("none": nothing does);
\* its handler runs to its end before the next event is taken
Handled(fault) ==
    /\ UNCHANGED tasks
    /\ events < MaxEvents
    /\ events' = events + 1
    /\ fault # "none" => faults < MaxFaults
    /\ faults' = IF fault # "none" THEN faults + 1 ELSE faults

\* an FSM storage with one state for the whole bot instead of one per user
Leave_one_state(u, r) ==
    /\ db' = r.db
    /\ fsm_state' = [w \in Users |-> r.st]
    /\ fsm_data' = [fsm_data EXCEPT ![u] = r.data]
    /\ files' = r.files
    /\ last' = r.obs
    /\ UNCHANGED <<variant, db_pool, now>>

\* the handler left r for user u
Leave(u, r) ==
    /\ db' = r.db
    /\ fsm_state' = [fsm_state EXCEPT ![u] = r.st]
    /\ fsm_data' = [fsm_data EXCEPT ![u] = r.data]
    /\ files' = r.files
    /\ last' = r.obs
    /\ UNCHANGED <<variant, db_pool, now>>

\* tempfile.NamedTemporaryFile(delete=False): a name that no file on disk has
\* and that was not given to a session still stored
NamedTemporaryFile ==
    CHOOSE p \in Paths :
        /\ p \notin files
        /\ \A u \in Users : "file_path" \in DOMAIN fsm_data[u] => fsm_data[u].file_path # p

\* a message with an audio, video, document, voice or video_note arrives
MediaReceived(u) ==
    \E ev \in {Evaluate(u)}, upload \in Uploads :
      \E fault \in MediaFaults(variant, db_pool, upload, ev) :
        /\ Handled(fault)
        /\ \E p \in {NamedTemporaryFile}, text \in {Speech(upload)} :
              \E r \in {IF variant = "package"
                         THEN handlers_handle_media_file(db, fsm_state[u], fsm_data[u], files,
                                                         u, now, upload, fault, p, text)
                         ELSE simple_handle_media_file(db_pool, db, fsm_state[u],
                                                       fsm_data[u], files, u, now, upload,
                                                       fault, p, text)} :
                  Leave(u, r)

\* a "translate_<lang>" callback arrives
LanguageChosen(u) ==
    \E lang \in Langs, fault \in TranslationFaults(variant, fsm_data[u]) :
        /\ Handled(fault)
        /\ \E r \in {IF variant = "package"
                     THEN handlers_handle_translation(db, fsm_state[u], fsm_data[u], files,
                                                      u, now, lang, fault)
                     ELSE simple_handle_translation(db, fsm_state[u], fsm_data[u], files,
                                                    u, now, lang, fault)} :
              Leave(u, r)

\* a "cancel" callback arrives
Cancelled(u) ==
    /\ Handled("none")
    /\ \E r \in {handle_cancel(db, fsm_state[u], fsm_data[u], files, u)} : Leave(u, r)

\* /start arrives
Started(u) ==
    \E fault \in StartFaults(variant, db_pool, Evaluate(u)) :
        /\ Handled(fault)
        /\ \E r \in {IF variant = "package"
                     THEN handlers_start_command(db, u, now, fault)
                     ELSE simple_start_command(db_pool, db, u, now, fault)} :
              /\ db' = r.db
              /\ last' = r.obs
              /\ UNCHANGED <<variant, db_pool, now, fsm_state, fsm_data, files>>

\* bot_simple.py: a successful_payment message arrives
PaymentConfirmed(u) ==
    \E fault \in PaymentFaults(db_pool) :
        /\ variant = "simple"
        /\ Handled(fault)
        /\ \E r \in {simple_handle_successful_payment(db_pool, db, u, now, fault)} :
              /\ db' = r.db
              /\ last' = r.obs
              /\ UNCHANGED <<variant, db_pool, now, fsm_state, fsm_data, files>>

\* database/models.py: activate_premium_subscription is called (no handler of
\* bot/handlers.py calls it; it is the store's activation entry point)
Activated(u) ==
    \E fault \in ActivateFaults :
        /\ variant = "package"
        /\ Handled(fault)
        /\ \E r \in {Database_activate_premium_subscription(
                         db, u, now, DURATION_DAYS, fault # "activate_premium_subscription")} :
              /\ db' = r.db
              /\ last' = [Obs("activate", u, fault) EXCEPT
                             !.outcome = IF r.raised THEN "unhandled_exception"
                                         ELSE "activated"]
              /\ UNCHANGED <<variant, db_pool, now, fsm_state, fsm_data, files>>

\* the instants the clock may show next: one tick later (up to MaxTick), or
\* the end of a stored subscription, or the tick after that end
NextInstants ==
    {t \in {now + 1} : t <= MaxTick}
    \cup {t \in now + 1 .. MaxNow :
            \E u \in DOMAIN db.subs :
                /\ db.subs[u].sub_end # <<>>
                /\ t \in {db.subs[u].sub_end[1], db.subs[u].sub_end[1] + 1}}

\* time passes
ClockAdvanced ==
    /\ Handled("none")
    /\ \E t \in NextInstants : now' = t
    /\ last' = Obs("clock", 0, "none")
    /\ UNCHANGED <<variant, db_pool, db, fsm_state, fsm_data, files>>

Next ==
    \/ \E u \in Users : MediaReceived(u)
    \/ \E u \in Users : LanguageChosen(u)
    \/ \E u \in Users : Cancelled(u)
    \/ \E u \in Users : Started(u)
    \/ \E u \in Users : PaymentConfirmed(u)
    \/ \E u \in Users : Activated(u)
    \/ ClockAdvanced

Spec == Init /\ [][Next]_vars

(* ===================== handlers as concurrent tasks ==================== *)
(* Dispatcher.start_polling handles each update in a task of its own       *)
(* (bot/main.py line 52, bot_simple.py line 767): a handler runs until it   *)
(* awaits the transport, a collaborator or the store, and other handlers,   *)
(* of the same user too, run in between.  A statement sent to the store is  *)
(* one atomic step.  The coroutines of MemoryStorage (get_data, set_state,  *)
(* update_data, clear) never suspend, so the handler goes on at once after  *)
(* them.  In this specification nothing is made to fail and the clock       *)
(* stands still; `tasks` holds one record per handler started: its          *)
(* handler, user, the await point it is at (pc), what can_make_request      *)
(* returned (type), the upload, the language chosen, the transcription and  *)
(* temporary file of an upload, the session data a language selection read, *)
(* what increment_daily_usage returned (ret), whether that statement ran    *)
(* (charged), the status shown last (outcome), and the calendar day on     *)
(* which can_make_request ran (day).                                        *)

Task(h, u) ==
    [handler |-> h, user |-> u, pc |-> "done", type |-> "none", upload |-> "none",
     lang |-> "none", text |-> "", path |-> "", data |-> EmptyDict, ret |-> 0,
     charged |-> FALSE, outcome |-> "none", day |-> 0]

\* a handler is started while fewer than MaxTasks were
Started_task(task) ==
    /\ Len(tasks) < MaxTasks
    /\ tasks' = Append(tasks, task)

\* the names tempfile.NamedTemporaryFile may return
TempNames ==
    {p \in Paths :
        /\ p \notin files
        /\ \A u \in Users : "file_path" \in DOMAIN fsm_data[u] => fsm_data[u].file_path # p}

\* handle_media_file up to the await of process_file: can_make_request, the
\* checks, the download into a new temporary file
TaskMediaGate(u, upload) ==
    \E ev \in {Evaluate(u)} :
        /\ TempNames # {}
        /\ db' = ev.db
        /\ IF ~ev.allowed
           THEN /\ Started_task([Task("media", u) EXCEPT !.type = ev.type, !.upload = upload,
                                                         !.day = Today(now),
                                                         !.outcome = "limit_reached"])
                /\ UNCHANGED files
           ELSE /\ Started_task([Task("media", u) EXCEPT
                                    !.type = ev.type, !.upload = upload, !.pc = "open",
                                    !.day = Today(now),
                                    !.text = Speech(upload), !.path = NamedTemporaryFile])
                /\ files' = files \cup {NamedTemporaryFile}
        /\ UNCHANGED <<variant, db_pool, now, fsm_state, fsm_data, events, faults, last>>

\* process_file returned a transcription: it is shown, set_state and
\* update_data write the session (handlers.py 154-162, bot_simple.py 503-507)
TaskMediaOpen(i) ==
    LET k == tasks[i] IN
    /\ k.handler = "media" /\ k.pc = "open"
    /\ fsm_state' = [fsm_state EXCEPT ![k.user] = "waiting_for_language"]
    /\ fsm_data' = [fsm_data EXCEPT ![k.user] =
                       DictUpdate(@, IF variant = "package"
                                     THEN handlers_session_data(k.text, k.path, k.upload)
                                     ELSE simple_session_data(k.text, k.path, k.upload))]
    /\ tasks' = [tasks EXCEPT ![i].pc = IF k.type # "premium" THEN "increment" ELSE "finally",
                              ![i].outcome = "transcription_complete"]
    /\ UNCHANGED <<variant, db_pool, now, db, files, events, faults, last>>

\* a faulty ledger write: SELECT requests_count, then in a second statement
\* UPDATE ... SET requests_count = <the count read> + 1
TaskMediaIncrement_read_then_write(i) ==
    LET k == tasks[i]
        key == <<k.user, Today(now)>>
    IN  /\ k.handler = "media" /\ k.pc = "increment"
        /\ db_pool
        /\ variant = "package" => k.user \in db.users
        /\ IF k.ret = 0
           THEN /\ tasks' = [tasks EXCEPT ![i].ret = SelectUsage(db, k.user, now) + 1]
                /\ UNCHANGED db
           ELSE /\ db' = [db EXCEPT !.usage = (key :> k.ret) @@ @]
                /\ tasks' = [tasks EXCEPT ![i].pc = "finally", ![i].charged = TRUE]
        /\ UNCHANGED <<variant, db_pool, now, fsm_state, fsm_data, files, events, faults, last>>

\* a faulty ledger write: the row is inserted with usage_date set to the day
\* on which can_make_request ran
TaskMediaIncrement_day_evaluated(i) ==
    LET k == tasks[i] IN
    /\ k.handler = "media" /\ k.pc = "increment"
    /\ \E r \in {IF variant = "package"
                 THEN handlers_charge(db, k.user, Days(k.day), k.type, TRUE)
                 ELSE simple_charge(db_pool, db, k.user, Days(k.day), k.type, TRUE)} :
          /\ db' = r.db
          /\ tasks' = [tasks EXCEPT ![i].pc = "finally", ![i].ret = r.ret,
                                    ![i].charged = ~r.raised /\ db_pool,
                                    ![i].outcome = IF r.raised THEN "processing_error"
                                                   ELSE @]
    /\ UNCHANGED <<variant, db_pool, now, fsm_state, fsm_data, files, events, faults, last>>

\* the ledger write, one INSERT ... ON CONFLICT DO UPDATE ... RETURNING
\* statement (models.py 128-138, bot_simple.py 163-179); what it raises is
\* caught by the handler's except clause
TaskMediaIncrement(i) ==
    LET k == tasks[i] IN
    /\ k.handler = "media" /\ k.pc = "increment"
    /\ \E r \in {IF variant = "package"
                 THEN handlers_charge(db, k.user, now, k.type, TRUE)
                 ELSE simple_charge(db_pool, db, k.user, now, k.type, TRUE)} :
          /\ db' = r.db
          /\ tasks' = [tasks EXCEPT ![i].pc = "finally", ![i].ret = r.ret,
                                    ![i].charged = ~r.raised /\ db_pool,
                                    ![i].outcome = IF r.raised THEN "processing_error"
                                                   ELSE @]
    /\ UNCHANGED <<variant, db_pool, now, fsm_state, fsm_data, files, events, faults, last>>

\* the finally clause of handle_media_file
TaskMediaFinally(i) ==
    LET k == tasks[i] IN
    /\ k.handler = "media" /\ k.pc = "finally"
    /\ files' = RemoveFile(files, k.path)
    /\ tasks' = [tasks EXCEPT ![i].pc = "done"]
    /\ UNCHANGED <<variant, db_pool, now, db, fsm_state, fsm_data, events, faults, last>>

\* handle_translation up to the await of edit_text('translating'): the
\* session data is read and checked
TaskTranslationResolve(u, lang) ==
    /\ IF ~HasSession(fsm_data[u])
       THEN Started_task([Task("translation", u) EXCEPT !.lang = lang,
                                                       !.outcome = "session_expired"])
       ELSE Started_task([Task("translation", u) EXCEPT
                            !.lang = lang, !.pc = "translate", !.data = fsm_data[u],
                            !.text = fsm_data[u].transcription,
                            !.path = DictGetPath(fsm_data[u])])
    /\ UNCHANGED <<variant, db_pool, now, db, fsm_state, fsm_data, files, events, faults,
                   last>>

\* translate_text returned the translation: it is shown and, in
\* bot/handlers.py, add_request_history is awaited
TaskTranslationRecord(i) ==
    LET k == tasks[i] IN
    /\ k.handler = "translation" /\ k.pc = "translate"
    /\ \E hist \in {IF variant = "package"
                    THEN Database_add_request_history(db, k.user,
                                                      HistoryRow(k.user, k.data, k.lang), TRUE)
                    ELSE Returned(db, TRUE)} :
          /\ db' = hist.db
          /\ tasks' = [tasks EXCEPT ![i].pc = "close",
                                    ![i].outcome = IF hist.raised THEN "translation_failed"
                                                   ELSE "translation_complete"]
    /\ UNCHANGED <<variant, db_pool, now, fsm_state, fsm_data, files, events, faults, last>>

\* the finally clause of handle_translation: state.clear(), and the file the
\* data read at the start names is removed if it exists
TaskTranslationClose(i) ==
    LET k == tasks[i] IN
    /\ k.handler = "translation" /\ k.pc = "close"
    /\ fsm_state' = [fsm_state EXCEPT ![k.user] = "None"]
    /\ fsm_data' = [fsm_data EXCEPT ![k.user] = EmptyDict]
    /\ files' = RemoveFile(files, k.path)
    /\ tasks' = [tasks EXCEPT ![i].pc = "done"]
    /\ UNCHANGED <<variant, db_pool, now, db, events, faults, last>>

\* handle_cancel up to the await of message.delete(): get_data, os.remove
\* and state.clear() follow each other with no suspension
TaskCancel(u) ==
    \E r \in {handle_cancel(db, fsm_state[u], fsm_data[u], files, u)} :
        /\ Started_task([Task("cancel", u) EXCEPT !.data = fsm_data[u],
                                                  !.path = DictGetPath(fsm_data[u]),
                                                  !.outcome = r.obs.outcome])
        /\ fsm_state' = [fsm_state EXCEPT ![u] = r.st]
        /\ fsm_data' = [fsm_data EXCEPT ![u] = r.data]
        /\ files' = r.files
        /\ UNCHANGED <<variant, db_pool, now, db, events, faults, last>>

\* /start: the statements of start_command on the store
TaskStart(u) ==
    \E r \in {IF variant = "package" THEN handlers_start_command(db, u, now, "none")
              ELSE simple_start_command(db_pool, db, u, now, "none")} :
        /\ Started_task([Task("start", u) EXCEPT !.type = r.obs.type,
                                                 !.outcome = r.obs.outcome])
        /\ db' = r.db
        /\ UNCHANGED <<variant, db_pool, now, fsm_state, fsm_data, files, events, faults,
                       last>>

NextTasks ==
    \/ \E u \in Users, upload \in {"audio", "video"} : TaskMediaGate(u, upload)
    \/ \E i \in DOMAIN tasks : TaskMediaOpen(i)
    \/ \E i \in DOMAIN tasks : TaskMediaIncrement(i)
    \/ \E i \in DOMAIN tasks : TaskMediaFinally(i)
    \/ \E u \in Users, lang \in Langs : TaskTranslationResolve(u, lang)
    \/ \E i \in DOMAIN tasks : TaskTranslationRecord(i)
    \/ \E i \in DOMAIN tasks : TaskTranslationClose(i)
    \/ \E u \in Users : TaskCancel(u)
    \/ \E u \in Users : TaskStart(u)

SpecTasks == Init /\ [][NextTasks]_vars

(* ================= concurrent tasks under a running clock ============== *)
(* The uploads, /start and the payment as concurrent tasks while time      *)
(* passes.  is_user_premium sends two statements when it finds an expired  *)
(* premium row: the SELECT, and after the check in application code the    *)
(* UPDATE ... SET is_premium = FALSE WHERE user_id = u; other handlers run  *)
(* between the two.  handle_successful_payment awaits save_payment_record   *)
(* and then activate_premium_subscription, one statement each.             *)

\* /start of u up to the UPDATE of is_user_premium: its SELECT returned a
\* premium row whose subscription_end is before now
TaskPremiumRead(u) ==
    /\ db_pool
    /\ u \in DOMAIN db.subs
    /\ db.subs[u].is_premium
    /\ SubscriptionExpired(db.subs[u], now)
    /\ Started_task([Task("start", u) EXCEPT !.pc = "expire", !.day = Today(now)])
    /\ UNCHANGED <<variant, db_pool, now, db, fsm_state, fsm_data, files, events, faults, last>>

\* the UPDATE of is_user_premium, which names the row by user_id alone, and
\* the rest of /start (get_daily_usage only reads)
TaskPremiumExpire(i) ==
    LET k == tasks[i] IN
    /\ k.handler = "start" /\ k.pc = "expire"
    /\ db' = [db EXCEPT !.subs[k.user].is_premium = FALSE]
    /\ tasks' = [tasks EXCEPT ![i].pc = "done", ![i].outcome = "start",
                              ![i].type = IF SelectUsage(db, k.user, now)
                                              < DAILY_FREE_REQUESTS(variant)
                                           THEN "free" ELSE "limit_exceeded"]
    /\ UNCHANGED <<variant, db_pool, now, fsm_state, fsm_data, files, events, faults, last>>

\* bot_simple.py handle_successful_payment up to the await of
\* activate_premium_subscription: save_payment_record ran
TaskPaymentSave(u) ==
    /\ variant = "simple"
    /\ \E r \in {simple_save_payment_record(db_pool, db, u, TRUE)} :
          /\ db' = r.db
          /\ Started_task([Task("payment", u) EXCEPT !.pc = "activate", !.day = Today(now)])
    /\ UNCHANGED <<variant, db_pool, now, fsm_state, fsm_data, files, events, faults, last>>

\* activate_premium_subscription of the payment, then the answer
TaskPaymentActivate(i) ==
    LET k == tasks[i] IN
    /\ k.handler = "payment" /\ k.pc = "activate"
    /\ \E r \in {simple_activate_premium_subscription(db_pool, db, k.user, now,
                                                      DURATION_DAYS, TRUE)} :
          db' = r.db
    /\ tasks' = [tasks EXCEPT ![i].pc = "done", ![i].outcome = "payment_successful"]
    /\ UNCHANGED <<variant, db_pool, now, fsm_state, fsm_data, files, events, faults, last>>

\* database/models.py: activate_premium_subscription is called, one statement
TaskActivate(u) ==
    /\ variant = "package"
    /\ \E r \in {Database_activate_premium_subscription(db, u, now, DURATION_DAYS, TRUE)} :
          db' = r.db
    /\ Started_task([Task("activate", u) EXCEPT !.outcome = "activated",
                                                !.day = Today(now)])
    /\ UNCHANGED <<variant, db_pool, now, fsm_state, fsm_data, files, events, faults, last>>

\* time passes while handlers are suspended
TaskClockAdvanced ==
    /\ \E t \in NextInstants : now' = t
    /\ UNCHANGED <<variant, db_pool, db, fsm_state, fsm_data, tasks, files, events, faults,
                   last>>

NextTimed ==
    \/ \E u \in Users, upload \in {"audio", "video"} : TaskMediaGate(u, upload)
    \/ \E i \in DOMAIN tasks : TaskMediaOpen(i)
    \/ \E i \in DOMAIN tasks : TaskMediaIncrement(i)
    \/ \E i \in DOMAIN tasks : TaskMediaFinally(i)
    \/ \E u \in Users : TaskStart(u)
    \/ \E u \in Users : TaskPremiumRead(u)
    \/ \E i \in DOMAIN tasks : TaskPremiumExpire(i)
    \/ \E u \in Users : TaskPaymentSave(u)
    \/ \E i \in DOMAIN tasks : TaskPaymentActivate(i)
    \/ \E u \in Users : TaskActivate(u)
    \/ TaskClockAdvanced

SpecTimed == Init /\ [][NextTimed]_vars

(* ================== /start between overlapping uploads ================= *)
(* The uploads as concurrent tasks, and /start handled in one piece between *)
(* their steps (its statements only read, but for the rows /start creates   *)
(* on a user's first contact); what /start showed is recorded in `last`.    *)

\* /start arrives and is answered while uploads are in flight
StartedBetween(u) ==
    \E r \in {IF variant = "package" THEN handlers_start_command(db, u, now, "none")
              ELSE simple_start_command(db_pool, db, u, now, "none")} :
        /\ db' = r.db
        /\ last' = r.obs
        /\ UNCHANGED <<variant, db_pool, now, fsm_state, fsm_data, tasks, files, events,
                       faults>>

NextUploads ==
    \/ \E u \in Users, upload \in {"audio", "video"} : TaskMediaGate(u, upload)
    \/ \E i \in DOMAIN tasks : TaskMediaOpen(i)
    \/ \E i \in DOMAIN tasks : TaskMediaIncrement(i)
    \/ \E i \in DOMAIN tasks : TaskMediaFinally(i)
    \/ \E u \in Users : StartedBetween(u)

SpecUploads == Init /\ [][NextUploads]_vars

(* ------------------------------ claims -------------------------------- *)

\* the stored subscription of u is premium and has not ended at instant t
StoredPremium(d, u, t) ==
    /\ u \in DOMAIN d.subs
    /\ d.subs[u].is_premium
    /\ ~SubscriptionExpired(d.subs[u], t)

\* the step is a handler run for u in which can_make_request returned
Evaluated(u) ==
    /\ last'.handler \in {"media", "start"}
    /\ last'.user = u
    /\ last'.type \in {"premium", "free", "limit_exceeded"}

\* the step is a run of handle_media_file for u
MediaStep(u) == last'.handler = "media" /\ last'.user = u

\* get_daily_usage(u) as the store answers it now
GetToday(u) ==
    IF variant = "package" THEN Database_get_daily_usage(db, u, now, TRUE).ret
    ELSE simple_get_daily_usage(db_pool, db, u, now, TRUE).ret

\* C1: for a user who is not premium and whose count for today has reached the
\* daily free limit, every can_make_request the store answers returns
\* (False, "limit_exceeded"), and no event of the same day lowers the count:
\* the user stays denied until the date changes, whatever is handled between.
C1_DeniedAtLimitUntilDateChanges ==
    [][\A u \in Users :
          /\ (/\ Evaluated(u)
              /\ ~last'.faulted
              /\ SelectUsage(db, u, now) >= DAILY_FREE_REQUESTS(variant)
              /\ ~StoredPremium(db, u, now))
             => (~last'.allowed /\ last'.type = "limit_exceeded")
          /\ Today(now') = Today(now)
             => SelectUsage(db', u, now') >= SelectUsage(db, u, now)]_vars

\* bot_simple.py: the fourth upload of the day is denied
C1_Witness ==
    /\ variant = "simple"
    /\ last.handler = "media"
    /\ ~last.faulted
    /\ last.type = "limit_exceeded"
    /\ ~last.allowed
    /\ SelectUsage(db, last.user, now) = DAILY_FREE_REQUESTS_SIMPLE
    /\ ~StoredPremium(db, last.user, now)

C3_ChargedOncePerTranscribedFreeUpload ==
    [][\A u \in Users :
          (/\ MediaStep(u)
           /\ db_pool
           /\ ~last'.faulted
           /\ last'.type = "free"
           /\ "transcribe" \in last'.calls
           /\ last'.outcome # "no_transcription")
          => SelectUsage(db', u, now') = SelectUsage(db, u, now) + 1]_vars

\* C4: a run of handle_media_file that can_make_request typed "premium" leaves
\* every count of the ledger as it was, whether or not it got a transcription.
C4_PremiumUploadLeavesLedger ==
    [][\A u \in Users :
          (MediaStep(u) /\ last'.type = "premium") => db'.usage = db.usage]_vars

\* a premium upload that got its transcription, by a user who has a count today
C4_Witness ==
    /\ last.handler = "media"
    /\ last.type = "premium"
    /\ last.opened
    /\ SelectUsage(db, last.user, now) > 0

\* C5: when an activation has run to its end for a user (store configured,
\* nothing made to fail), can_make_request for that user returns
\* (True, "premium"), and the activation left the ledger as it was.
C5_PremiumRightAfterActivation ==
    [][\A u \in Users :
          (/\ last'.handler \in {"activate", "payment"}
           /\ last'.user = u
           /\ last'.outcome \in {"activated", "payment_successful"}
           /\ db_pool
           /\ ~last'.faulted)
          => (/\ Evaluate(u)'.allowed
              /\ Evaluate(u)'.type = "premium"
              /\ db'.usage = db.usage)]_vars

\* C6: when can_make_request is answered by the store for a user whose stored
\* subscription has is_premium = TRUE and an end in the past, it returns "free"
\* if today's count is below the limit and "limit_exceeded" otherwise, never
\* "premium", and the stored record has is_premium = FALSE afterwards.
C6_ExpiredSubscriptionIsCorrected ==
    [][\A u \in Users :
          (/\ Evaluated(u)
           /\ ~last'.faulted
           /\ u \in DOMAIN db.subs
           /\ db.subs[u].is_premium
           /\ SubscriptionExpired(db.subs[u], now))
          => (/\ last'.type = (IF SelectUsage(db, u, now) < DAILY_FREE_REQUESTS(variant)
                               THEN "free" ELSE "limit_exceeded")
              /\ last'.allowed = (SelectUsage(db, u, now) < DAILY_FREE_REQUESTS(variant))
              /\ ~db'.subs[u].is_premium)]_vars

\* database/models.py: an upload after the end of an activated subscription was
\* typed "free" and the stored flag is FALSE
C6_Witness ==
    /\ variant = "package"
    /\ last.handler = "media"
    /\ ~last.faulted
    /\ last.type = "free"
    /\ last.user \in DOMAIN db.subs
    /\ ~db.subs[last.user].is_premium
    /\ SubscriptionExpired(db.subs[last.user], now)

\* C7: a run of handle_media_file in which a step fails of itself (nothing
\* made to fail) ends with the user's session as it was and the ledger as it
\* was.
C7_FailedUploadOpensNoSession ==
    [][\A u \in Users :
          (/\ MediaStep(u)
           /\ ~last'.faulted
           /\ last'.outcome \in {"processing_error", "no_transcription"})
          => (/\ fsm_data'[u] = fsm_data[u]
              /\ fsm_state'[u] = fsm_state[u]
              /\ db'.usage = db.usage)]_vars

\* C8: a run of handle_media_file in which can_make_request returned
\* (False, "limit_exceeded") shows limit_reached and ends: no file lookup, no
\* download, no collaborator call, no file written, the session and the ledger
\* as they were.
C8_DeniedUploadStops ==
    [][\A u \in Users :
          (MediaStep(u) /\ last'.type = "limit_exceeded")
          => (/\ ~last'.allowed
              /\ last'.outcome = "limit_reached"
              /\ last'.calls = {}
              /\ ~last'.opened
              /\ ~last'.incremented
              /\ fsm_data' = fsm_data
              /\ fsm_state' = fsm_state
              /\ files' = files
              /\ db'.usage = db.usage)]_vars

\* an upload denied while the user has a session waiting for a language
C8_Witness ==
    /\ last.handler = "media"
    /\ last.outcome = "limit_reached"
    /\ last.had_session
    /\ HasSession(fsm_data[last.user])

\* C9: the session of a user holds exactly the transcription and path the last
\* handle_media_file that wrote it was given, until handle_translation or
\* handle_cancel of that user ends it: handle_translation reads exactly what
\* the session holds; after handle_translation found a session and entered its
\* try block, or after handle_cancel, the user has none, and handle_translation
\* with none shows session_expired.
C9_SessionKeepsWhatWasOpened ==
    [][\A u \in Users :
          /\ (MediaStep(u) /\ last'.opened)
             => (/\ HasSession(fsm_data'[u])
                 /\ fsm_data'[u].transcription = last'.text
                 /\ DictGetPath(fsm_data'[u]) = last'.path)
          /\ (last'.handler = "translation" /\ last'.user = u /\ HasSession(fsm_data[u]))
             => (/\ last'.text = fsm_data[u].transcription
                 /\ last'.path = DictGetPath(fsm_data[u])
                 /\ last'.outcome # "session_expired"
                 /\ last'.outcome # "unhandled_exception" => ~HasSession(fsm_data'[u]))
          /\ (last'.handler = "translation" /\ last'.user = u /\ ~HasSession(fsm_data[u]))
             => (last'.outcome = "session_expired" /\ last'.text = "" /\ last'.path = "")
          /\ (last'.handler = "cancel" /\ last'.user = u) => ~HasSession(fsm_data'[u])
          /\ fsm_data'[u] # fsm_data[u]
             => (/\ last'.user = u
                 /\ \/ last'.handler = "media" /\ last'.opened
                    \/ last'.handler \in {"translation", "cancel"})]_vars

\* bot/handlers.py: handle_translation read the session a video upload opened
C9_Witness ==
    /\ variant = "package"
    /\ last.handler = "translation"
    /\ last.outcome = "translation_complete"
    /\ last.text = Speech("video")
    /\ last.path \in Paths
    /\ ~HasSession(fsm_data[last.user])

\* the dict update_data of handle_media_file writes for an upload
SessionData(upload, transcription, path) ==
    IF variant = "package" THEN handlers_session_data(transcription, path, upload)
    ELSE simple_session_data(transcription, path, upload)

\* C10: a user has one session (one FSM data dict); a run of handle_media_file
\* that writes it while it holds a transcription leaves exactly the dict of the
\* new upload, under a path the replaced session did not have.
C10_UploadReplacesLiveSession ==
    [][\A u \in Users :
          (MediaStep(u) /\ last'.opened /\ HasSession(fsm_data[u]))
          => (/\ \E upload \in {"audio", "video"} :
                    /\ Speech(upload) = last'.text
                    /\ fsm_data'[u] = SessionData(upload, last'.text, last'.path)
              /\ last'.path # DictGetPath(fsm_data[u]))]_vars

\* a video upload wrote the session while the user had one
C10_Witness ==
    /\ last.handler = "media"
    /\ last.had_session
    /\ last.opened
    /\ last.text = Speech("video")
    /\ fsm_data[last.user].transcription = Speech("video")

(* ------------------------------- C11 ---------------------------------- *)
\* a language-selection callback of user u is handled
TranslationStep(u) == last'.handler = "translation" /\ last'.user = u

\* C11: when handle_translation finds no transcription in the user's session,
\* it answers session_expired, the translator is not called, no history row
\* is appended, and the store (ledger, subscriptions, history), the user's FSM
\* state and data, and the files are left as they were.
C11_NoSessionAnswersSessionExpired ==
    [][\A u \in Users :
          (TranslationStep(u) /\ ~HasSession(fsm_data[u]))
          => (/\ last'.outcome = "session_expired"
              /\ last'.calls = {}
              /\ ~last'.recorded
              /\ db' = db
              /\ fsm_state' = fsm_state
              /\ fsm_data' = fsm_data
              /\ files' = files)]_vars

\* a language was chosen with no session, by a user whose ledger holds a count
C11_Witness ==
    /\ last.handler = "translation"
    /\ ~last.had_session
    /\ last.outcome = "session_expired"
    /\ \E k \in DOMAIN db.usage : k[1] = last.user /\ db.usage[k] > 0

C13_FailedTranslationClosesSession ==
    [][\A u \in Users :
          (/\ TranslationStep(u)
           /\ HasSession(fsm_data[u])
           /\ last'.failed = "translate")
          => (/\ last'.outcome = "translation_failed"
              /\ fsm_state'[u] = "None"
              /\ fsm_data'[u] = EmptyDict
              /\ DictGetPath(fsm_data[u]) \notin files'
              /\ ~last'.recorded
              /\ db'.history = db.history)]_vars

\* bot/handlers.py: the translator failed for a user who has a row in `users`
C13_Witness ==
    /\ variant = "package"
    /\ last.handler = "translation"
    /\ last.had_session
    /\ last.failed = "translate"
    /\ last.outcome = "translation_failed"
    /\ last.user \in db.users
    /\ fsm_state[last.user] = "None"

(* ------------------------------- C14 ---------------------------------- *)
\* a cancel callback of user u is handled
CancelStep(u) == last'.handler = "cancel" /\ last'.user = u

\* C14: after handle_cancel the user's FSM state and data are cleared and the
\* file the session named is not on disk, whether or not the user had a
\* session; the store (ledger, subscriptions, history, users) and the other
\* users' sessions are as they were.
C14_CancelClosesSessionOnly ==
    [][\A u \in Users :
          CancelStep(u)
          => (/\ fsm_state'[u] = "None"
              /\ fsm_data'[u] = EmptyDict
              /\ DictGetPath(fsm_data[u]) \notin files'
              /\ db' = db
              /\ \A w \in Users \ {u} :
                    fsm_state'[w] = fsm_state[w] /\ fsm_data'[w] = fsm_data[w])]_vars

\* a cancel ended a live session of a user whose store rows it left alone
C14_Witness ==
    /\ last.handler = "cancel"
    /\ last.had_session
    /\ fsm_data[last.user] = EmptyDict
    /\ \E k \in DOMAIN db.usage : k[1] = last.user /\ db.usage[k] > 0

(* ------------------------------- C15 ---------------------------------- *)
\* ProcessingState.waiting_for_language, and no state
AwaitingLanguage(u) == fsm_state[u] = "waiting_for_language"
Idle(u) == fsm_state[u] = "None"

\* C15: a user's FSM state is None or waiting_for_language. It becomes
\* waiting_for_language only in handle_media_file of that user after
\* transcribe_audio returned a transcription; a language selection handled in
\* waiting_for_language with the session's transcription present whose
\* translation succeeded or failed, and every cancel, end in None; the state
\* leaves waiting_for_language only in handle_translation or handle_cancel of
\* that user, and no other event changes it.
C15_SessionStateMachine ==
    [][\A u \in Users :
          /\ (Idle(u) \/ AwaitingLanguage(u)) /\ (Idle(u) \/ AwaitingLanguage(u))'
          /\ (Idle(u) /\ AwaitingLanguage(u)')
             => (/\ MediaStep(u)
                 /\ "transcribe" \in last'.calls
                 /\ last'.failed # "transcribe"
                 /\ last'.outcome \notin {"no_transcription", "limit_reached"})
          /\ (/\ TranslationStep(u)
              /\ AwaitingLanguage(u)
              /\ HasSession(fsm_data[u])
              /\ last'.failed # "edit_translating")
             => (last'.outcome \in {"translation_complete", "translation_failed"} /\ Idle(u)')
          /\ CancelStep(u) => Idle(u)'
          /\ (AwaitingLanguage(u) /\ Idle(u)')
             => (TranslationStep(u) \/ CancelStep(u))
          /\ fsm_state'[u] # fsm_state[u]
             => (last'.user = u /\ last'.handler \in {"media", "translation", "cancel"})]_vars

\* a user went from None to waiting_for_language and back to None by a
\* language selection, and the other user is waiting_for_language
C15_Witness ==
    /\ last.handler = "translation"
    /\ last.had_session
    /\ last.outcome \in {"translation_complete", "translation_failed"}
    /\ Idle(last.user)
    /\ \E w \in Users \ {last.user} : AwaitingLanguage(w)

(* ------------------------------- C16 ---------------------------------- *)
\* the uploads of user u whose ledger statement ran
Charged(u) ==
    {i \in DOMAIN tasks :
        tasks[i].handler = "media" /\ tasks[i].user = u /\ tasks[i].charged}

\* C16: with handlers of the same user running concurrently, the k calls of
\* increment_daily_usage for one (user, date) that the store executed returned
\* k distinct values, and these are the consecutive counts 1 .. k, k being the
\* stored count: no increment is lost and none is seen twice.
C16_IncrementsAreLinearizable ==
    db_pool =>
        \A u \in Users :
            /\ \A i, j \in Charged(u) : i # j => tasks[i].ret # tasks[j].ret
            /\ {tasks[i].ret : i \in Charged(u)} = 1 .. SelectUsage(db, u, now)

\* two uploads of one user were in flight together: the one started later
\* was counted first
C16_Witness ==
    \E u \in Users : \E i, j \in Charged(u) :
        /\ i < j
        /\ tasks[j].ret = 1
        /\ tasks[i].ret = 2
        /\ SelectUsage(db, u, now) = 2

(* ------------------------------- C17 ---------------------------------- *)
\* C17: when a stage of handle_media_file, handle_translation or
\* handle_cancel fails (here: with nothing made to fail from outside, so the
\* failure is the program's own), the handler still ends with a status shown
\* to the user, the temporary file it used is not on disk, and the user has no
\* session that this handler wrote or was resolving.
C17_FailedHandlerCleansUp ==
    [][\A u \in Users :
          (/\ last'.user = u
           /\ last'.handler \in {"media", "translation", "cancel"}
           /\ ~last'.faulted
           /\ last'.outcome \in {"processing_error", "no_transcription",
                                 "translation_failed", "unhandled_exception"})
          => (/\ last'.outcome # "unhandled_exception"
              /\ last'.path \notin files'
              /\ last'.handler = "media" => ~(last'.opened /\ HasSession(fsm_data'[u]))
              /\ last'.handler = "translation" => ~HasSession(fsm_data'[u]))]_vars

(* ------------------------------- C18 ---------------------------------- *)
\* C18: when an upload of a user overlaps a language selection of the same
\* user, the state.clear() that ends the language selection removes the
\* session that selection read, never a session a newer upload wrote in
\* between: at the clear, the stored session is the one the selection read,
\* or it is left as it is.
C18_CloseKeepsNewerSession ==
    [][\A i \in DOMAIN tasks :
          (/\ tasks[i].handler = "translation"
           /\ tasks[i].pc = "close"
           /\ tasks'[i].pc = "done")
          => (\/ fsm_data[tasks[i].user] = tasks[i].data
              \/ fsm_data'[tasks[i].user] = fsm_data[tasks[i].user])]_vars

(* ------------------------------- C19 ---------------------------------- *)
\* C19: request_history only grows, by rows appended at its end: every step
\* leaves it as it was or appends one row, a row is appended only by a
\* handle_translation whose translation completed, and every
\* handle_translation whose translation completed (bot/handlers.py, nothing
\* made to fail) appends exactly one row, for its user.
C19_HistoryGrowsByOneRowPerTranslation ==
    [][/\ \/ db'.history = db.history
          \/ /\ Len(db'.history) = Len(db.history) + 1
             /\ SubSeq(db'.history, 1, Len(db.history)) = db.history
             /\ last'.handler = "translation"
             /\ "translate" \in last'.calls
             /\ db'.history[Len(db'.history)].user_id = last'.user
       /\ \A u \in Users :
             (/\ TranslationStep(u)
              /\ variant = "package"
              /\ "translate" \in last'.calls
              /\ ~last'.faulted)
             => (last'.recorded /\ Len(db'.history) = Len(db.history) + 1)]_vars

(* ------------------------------- C20 ---------------------------------- *)
\* C20: a user whose event was handled last (a /start, an upload, a language
\* selection, a cancel, a payment; nothing made to fail) has a row in `users`,
\* and so has every user who has a daily_usage row, a user_subscriptions row
\* or a session; no step removes a row of `users`.
C20_UserRecordExists ==
    \A u \in Users :
        /\ (/\ last.user = u
            /\ last.handler \in {"start", "media", "translation", "cancel", "payment"}
            /\ ~last.faulted)
           => u \in db.users
        /\ (\/ HasSession(fsm_data[u])
            \/ u \in DOMAIN db.subs
            \/ \E k \in DOMAIN db.usage : k[1] = u)
           => u \in db.users

(* ------------------------------- C21 ---------------------------------- *)
\* can_make_request(u) as the store d answers it at instant t
EvaluateIn(d, t, u) ==
    IF variant = "package" THEN Database_can_make_request(d, u, t, TRUE, TRUE)
    ELSE simple_can_make_request(db_pool, d, u, t, TRUE, TRUE)

\* C21: when the clock passes into another calendar date, nothing is written
\* to daily_usage, every user's count for the new date reads 0, and
\* can_make_request for a user who is not premium returns (True, "free"); and
\* no step of any kind changes or removes a daily_usage row of a date other
\* than the current one.
C21_QuotaResetsByDateAlone ==
    [][/\ Today(now') # Today(now)
          => (/\ db'.usage = db.usage
              /\ \A u \in Users :
                    /\ SelectUsage(db', u, now') = 0
                    /\ EvaluateIn(db', now', u).type # "premium"
                       => (/\ EvaluateIn(db', now', u).allowed
                           /\ EvaluateIn(db', now', u).type = "free"))
       /\ \A k \in DOMAIN db.usage :
             k[2] # Today(now) => (k \in DOMAIN db'.usage /\ db'.usage[k] = db.usage[k])]_vars

\* an upload was typed "free" on a later date by a store that still holds the
\* user's count of an earlier date, which had reached the limit
C21_Witness ==
    /\ last.handler = "media"
    /\ ~last.faulted
    /\ last.type = "free"
    /\ \E k \in DOMAIN db.usage :
          /\ k[1] = last.user
          /\ k[2] < Today(now)
          /\ db.usage[k] >= DAILY_FREE_REQUESTS(variant)

(* ------------------------------- C22 ---------------------------------- *)
\* C22: when the store does not answer a read of can_make_request
\* (is_user_premium or get_daily_usage fails), can_make_request returns
\* (True, "free") in both programs: it neither raises nor denies.
C22_UnreachableStoreAllowsFree ==
    [][\A u \in Users :
          (/\ MediaStep(u)
           /\ last'.failed \in {"is_user_premium", "get_daily_usage"})
          => (/\ last'.allowed
              /\ last'.type = "free"
              /\ last'.outcome # "unhandled_exception")]_vars

(* ------------------------------- C23 ---------------------------------- *)
\* can_make_request ran for u, the store answered, and the stored subscription
\* of u was premium with an end
EvaluatedWithEnd(u) ==
    /\ Evaluated(u)
    /\ ~last'.faulted
    /\ u \in DOMAIN db.subs
    /\ db.subs[u].is_premium
    /\ db.subs[u].sub_end # <<>>

\* C23 as stated: a premium subscription whose end is at or before the current
\* instant (end <= now) is not returned as premium and its stored is_premium
\* is set to false.
C23_ExpiredAtOrBeforeNow ==
    [][\A u \in Users :
          (EvaluatedWithEnd(u) /\ db.subs[u].sub_end[1] <= now)
          => (last'.type # "premium" /\ ~db'.subs[u].is_premium)]_vars

\* C23 as the code has it: the subscription is expired when its end is
\* strictly before the current instant (subscription_end < datetime.now()).
\* At end = now can_make_request still returns (True, "premium") and the row is
\* left as it is; from the next instant on it does not return premium and
\* sets is_premium to false.
C23_ExpiredStrictlyAfterEnd ==
    [][\A u \in Users :
          /\ (EvaluatedWithEnd(u) /\ db.subs[u].sub_end[1] = now)
             => (/\ last'.type = "premium"
                 /\ MediaStep(u) => last'.allowed
                 /\ db'.subs[u] = db.subs[u])
          /\ (EvaluatedWithEnd(u) /\ db.subs[u].sub_end[1] < now)
             => (/\ last'.type # "premium"
                 /\ db'.subs[u] = [db.subs[u] EXCEPT !.is_premium = FALSE])]_vars

\* an upload at the very instant the subscription ends was typed "premium"
C23_Witness ==
    /\ last.handler = "media"
    /\ ~last.faulted
    /\ last.type = "premium"
    /\ last.user \in DOMAIN db.subs
    /\ db.subs[last.user].is_premium
    /\ db.subs[last.user].sub_end = <<now>>

(* ------------------------------- C24 ---------------------------------- *)
\* C24: after can_make_request ran in an upload of a user who had no
\* user_subscriptions row (the store answered), the user has a row with
\* is_premium = FALSE, whether or not the user ever sent /start.
C24_EvaluateCreatesDefaultRecord ==
    [][\A u \in Users :
          (/\ MediaStep(u)
           /\ db_pool
           /\ ~last'.faulted
           /\ u \notin DOMAIN db.subs)
          => (/\ u \in DOMAIN db'.subs
              /\ ~db'.subs[u].is_premium)]_vars

(* ------------------------------- C25 ---------------------------------- *)
\* C25: in every reachable state of the store and at every instant reached,
\* two calls of can_make_request for the same user, one right after the
\* other, return the same (allowed, type), and the second call leaves the
\* store exactly as the first call left it: a default row is created and an
\* expired subscription is corrected by the first call only.
C25_EvaluateIsIdempotent ==
    \A u \in Users :
        LET first == EvaluateIn(db, now, u)
            second == EvaluateIn(first.db, now, u)
        IN  /\ second.allowed = first.allowed
            /\ second.type = first.type
            /\ second.db = first.db

\* a state in which the first call writes: a user's stored subscription is
\* premium and has ended, so the call corrects it
C25_Witness ==
    \E u \in Users :
        /\ u \in DOMAIN db.subs
        /\ db.subs[u].is_premium
        /\ SubscriptionExpired(db.subs[u], now)
        /\ EvaluateIn(db, now, u).db # db
        /\ ~EvaluateIn(db, now, u).db.subs[u].is_premium

(* ------------------------------- C26 ---------------------------------- *)
\* C26: a daily_usage row appears only in an upload of its user that was
\* typed "free" and ran the ledger write, for the current date and with count
\* 1; a row once stored is never removed, its count never becomes smaller, and
\* every stored count is at least 1.
C26_CountersOnlyGrow ==
    [][/\ \A k \in DOMAIN db.usage :
             k \in DOMAIN db'.usage /\ db'.usage[k] >= db.usage[k]
       /\ \A k \in DOMAIN db'.usage :
             /\ db'.usage[k] >= 1
             /\ k \notin DOMAIN db.usage
                => (/\ db'.usage[k] = 1
                    /\ k[2] = Today(now)
                    /\ MediaStep(k[1])
                    /\ last'.type = "free"
                    /\ last'.incremented)]_vars

\* a second accounted upload of the same user and date raised the row to 2
C26_Witness ==
    /\ last.handler = "media"
    /\ last.incremented
    /\ <<last.user, Today(now)>> \in DOMAIN db.usage
    /\ db.usage[<<last.user, Today(now)>>] = 2

(* ------------------------------- C27 ---------------------------------- *)
\* C27: a stored user_subscriptions row is never removed, and a step leaves
\* it as it was unless it is an activation of that user (a payment in
\* bot_simple.py, activate_premium_subscription in database/models.py), which
\* writes is_premium = TRUE with start = now and end = now + 30 days, or the
\* correction of an ended premium row in can_make_request or is_user_premium
\* of that user (an upload or /start), which sets is_premium = FALSE and
\* nothing else.
C27_SubscriptionChangesOnlyByActivationOrExpiry ==
    [][\A u \in DOMAIN db.subs :
          /\ u \in DOMAIN db'.subs
          /\ \/ db'.subs[u] = db.subs[u]
             \/ /\ last'.handler \in {"payment", "activate"}
                /\ last'.user = u
                /\ db'.subs[u] = ActiveSubscription(now, DURATION_DAYS)
             \/ /\ last'.handler \in {"media", "start"}
                /\ last'.user = u
                /\ db.subs[u].is_premium
                /\ SubscriptionExpired(db.subs[u], now)
                /\ db'.subs[u] = [db.subs[u] EXCEPT !.is_premium = FALSE]]_vars

\* a row that an activation had written was corrected in an upload after its end
C27_Witness ==
    /\ last.handler = "media"
    /\ ~last.faulted
    /\ last.user \in DOMAIN db.subs
    /\ ~db.subs[last.user].is_premium
    /\ db.subs[last.user].sub_end # <<>>
    /\ db.subs[last.user].sub_end[1] < now

(* ------------------------------- C28 ---------------------------------- *)
\* a row with is_premium = TRUE and no subscription_end (the schema allows it;
\* no statement of the programs writes one)
OpenEndedSubscription == [is_premium |-> TRUE, sub_start |-> <<>>, sub_end |-> <<>>]

\* C28: every step that writes a user_subscriptions row with is_premium = TRUE
\* (creates it or changes it) leaves it with no end or with an end strictly
\* later than the instant of the write; and in every store reached, a user's
\* row with is_premium = TRUE and no end makes can_make_request return
\* (True, "premium") at the current and at every later instant, and the call
\* leaves the row as it is.
C28_PremiumEndIsInTheFuture ==
    [][/\ \A u \in DOMAIN db'.subs :
             (/\ db'.subs[u].is_premium
              /\ (u \notin DOMAIN db.subs \/ db.subs[u] # db'.subs[u]))
             => (\/ db'.subs[u].sub_end = <<>>
                 \/ db'.subs[u].sub_end[1] > now)
       /\ db_pool
          => \A u \in Users, t \in now .. MaxNow :
                LET d == [db EXCEPT !.subs = (u :> OpenEndedSubscription) @@ @]
                    e == EvaluateIn(d, t, u)
                IN  e.allowed /\ e.type = "premium" /\ e.db = d]_vars

\* an activation has just written a premium row that ends after the instant
\* of the write
C28_Witness ==
    /\ last.handler \in {"payment", "activate"}
    /\ ~last.faulted
    /\ last.user \in DOMAIN db.subs
    /\ db.subs[last.user].is_premium
    /\ db.subs[last.user].sub_start = <<now>>
    /\ db.subs[last.user].sub_end[1] > now

(* ------------------------------- C29 ---------------------------------- *)
\* C29: in an upload whose download and transcription succeeded (nothing made
\* to fail), the session is written and the translator is not called: it is
\* called only by handle_translation, for a session that was found.
C29_UploadCallsNoTranslator ==
    [][\A u \in Users :
          /\ (/\ MediaStep(u)
              /\ ~last'.faulted
              /\ "transcribe" \in last'.calls)
             => (last'.opened /\ "translate" \notin last'.calls)
          /\ (TranslationStep(u) /\ "translate" \in last'.calls) => last'.had_session]_vars

(* ------------------------------- C30 ---------------------------------- *)
\* C30: on every store reached and at every instant reached, can_make_request
\* of database/models.py and can_make_request of bot_simple.py (with a pool)
\* return the same (allowed, type) for the same user.
C30_VariantsEvaluateAlike ==
    \A u \in Users :
        LET package == Database_can_make_request(db, u, now, TRUE, TRUE)
            simple == simple_can_make_request(TRUE, db, u, now, TRUE, TRUE)
        IN  package.allowed = simple.allowed /\ package.type = simple.type

(* ------------------------------- C31 ---------------------------------- *)
\* C31: for a user who was never premium, the stored count of a day never
\* exceeds the daily free limit, also when uploads of the same user overlap
\* (each runs can_make_request before any of them runs increment_daily_usage).
C31_CountNeverExceedsLimit ==
    \A key \in DOMAIN db.usage :
        (key[1] \notin DOMAIN db.subs \/ db.subs[key[1]].sub_end = <<>>)
            => db.usage[key] <= DAILY_FREE_REQUESTS(variant)

(* ------------------------------- C32 ---------------------------------- *)
\* C32: while a user's session is live (waiting_for_language), the temporary
\* file its file_path names has not been removed: the file is removed only by
\* the language selection or the cancel that closes the session, not by the
\* handle_media_file that opened it.
C32_LiveSessionOwnsItsFile ==
    \A u \in Users :
        (AwaitingLanguage(u) /\ "file_path" \in DOMAIN fsm_data[u])
            => fsm_data[u].file_path \in files

(* ------------------------------- C33 ---------------------------------- *)
\* C33: the expiry correction never deactivates a subscription that is not
\* expired: a step that sets a stored is_premium from true to false does so
\* only to a record whose subscription_end is before now, also when a payment
\* activation runs between the read and the correction of is_user_premium.
C33_OnlyExpiredIsDeactivated ==
    [][\A u \in DOMAIN db.subs :
          (/\ db.subs[u].is_premium
           /\ u \in DOMAIN db'.subs
           /\ ~db'.subs[u].is_premium)
          => SubscriptionExpired(db.subs[u], now)]_vars

(* ------------------------------- C34 ---------------------------------- *)
\* C34: when two language selections of one user overlap on one live session,
\* the session is translated at most once: no two handle_translation runs
\* that read the same session have both come back from translate_text (and,
\* in bot/handlers.py, from add_request_history) with the session not yet
\* cleared by either.
C34_SessionTranslatedAtMostOnce ==
    \A i, j \in DOMAIN tasks :
        (/\ i < j
         /\ tasks[i].handler = "translation" /\ tasks[j].handler = "translation"
         /\ tasks[i].user = tasks[j].user
         /\ HasSession(tasks[i].data)
         /\ tasks[i].data = tasks[j].data)
        => ~(tasks[i].pc = "close" /\ tasks[j].pc = "close")

(* ------------------------------- C35 ---------------------------------- *)
\* the step is a run of handle_successful_payment for u
PaymentStep(u) == last'.handler = "payment" /\ last'.user = u

\* C35: whenever handle_successful_payment answers the payment-successful
\* message to a user, that user's stored subscription is premium with an end
\* after now; when save_payment_record or activate_premium_subscription
\* failed, the error message is answered instead.
C35_SuccessMeansActivated ==
    [][\A u \in Users :
          PaymentStep(u) =>
              /\ last'.outcome = "payment_successful" =>
                    /\ u \in DOMAIN db'.subs
                    /\ db'.subs[u].is_premium
                    /\ db'.subs[u].sub_end # <<>>
                    /\ db'.subs[u].sub_end[1] > now
              /\ last'.failed \in {"save_payment_record", "activate_premium_subscription"}
                    => last'.outcome = "payment_error"]_vars

(* ------------------------------- C36 ---------------------------------- *)
\* the step is a run of handle_media_file for u that rejected the upload
\* before processing: denied, no file info, too large, unsupported extension
Rejected(u) ==
    /\ MediaStep(u)
    /\ last'.outcome \in {"limit_reached", "unsupported_format", "file_too_large"}

\* the step leaves every user's session, the ledger, the history and the
\* files as they were
SessionLedgerHistoryKept ==
    /\ fsm_state' = fsm_state
    /\ fsm_data' = fsm_data
    /\ files' = files
    /\ db'.usage = db.usage
    /\ db'.history = db.history
    /\ db'.users = db.users

\* C36 as stated: an upload rejected before processing changes nothing: the
\* user's live session, the usage ledger, the history and the subscription
\* record are the same after the handler as before.
C36_RejectedUploadChangesNothing ==
    [][\A u \in Users :
          Rejected(u) => (SessionLedgerHistoryKept /\ db'.subs = db.subs)]_vars

\* C36, amended: an upload rejected before processing leaves the session, the
\* ledger and the history as they were; of the subscription records it
\* changes at most the user's own, and only as can_make_request does: a
\* default record is created where there was none, or is_premium of a record
\* whose end is before now is set to false.
C36_RejectedUploadKeepsSessionLedgerHistory ==
    [][\A u \in Users :
          Rejected(u) =>
              /\ SessionLedgerHistoryKept
              /\ DOMAIN db.subs \subseteq DOMAIN db'.subs
              /\ \A w \in DOMAIN db'.subs :
                    IF w \notin DOMAIN db.subs
                    THEN w = u /\ db'.subs[w] = DefaultSubscription
                    ELSE \/ db'.subs[w] = db.subs[w]
                         \/ /\ w = u
                            /\ db.subs[w].is_premium
                            /\ SubscriptionExpired(db.subs[w], now)
                            /\ db'.subs[w] = [db.subs[w] EXCEPT !.is_premium = FALSE]]_vars

\* an upload of a user with a live session was rejected for its size after
\* can_make_request allowed it: the session is still there, the ledger holds
\* the one request counted before, and the user has a subscription record
C36_Witness ==
    /\ last.handler = "media"
    /\ last.outcome = "file_too_large"
    /\ last.allowed
    /\ last.had_session
    /\ AwaitingLanguage(last.user)
    /\ HasSession(fsm_data[last.user])
    /\ SelectUsage(db, last.user, now) = 1
    /\ last.user \in DOMAIN db.subs

(* ------------------------------- C37 ---------------------------------- *)
\* the count stored in ledger `usage` under `key` (no row: 0)
Count(usage, key) == IF key \in DOMAIN usage THEN usage[key] ELSE 0

\* the step is the ledger statement of upload i, and the store executed it
ChargeStep(i) ==
    /\ tasks[i].handler = "media"
    /\ tasks[i].pc = "increment"
    /\ tasks'[i].pc = "finally"
    /\ tasks'[i].charged

\* the step adds one to the count of `key` and leaves every other count
AddsOneTo(key) ==
    /\ DOMAIN db'.usage = DOMAIN db.usage \cup {key}
    /\ db'.usage[key] = Count(db.usage, key) + 1
    /\ \A j \in DOMAIN db.usage : j # key => db'.usage[j] = db.usage[j]

\* C37 as stated: a free request is charged to the calendar day on which it
\* was evaluated: when can_make_request ran on day D and the transcription
\* finished after the date changed, the increment goes to the counter of D.
C37_ChargedToTheDayEvaluated ==
    [][\A i \in DOMAIN tasks :
          ChargeStep(i) => AddsOneTo(<<tasks[i].user, tasks[i].day>>)]_vars

\* C37, amended: a free request is charged to the calendar day on which
\* increment_daily_usage runs: when can_make_request ran on day D and the
\* date changed before the increment, the counter of the new day gets the
\* increment and the counter of D stays as it was.
C37_ChargedToTheDayOfTheIncrement ==
    [][\A i \in DOMAIN tasks :
          ChargeStep(i) => AddsOneTo(<<tasks[i].user, Today(now)>>)]_vars

\* an upload was evaluated on day 0 and charged after the date changed: the
\* ledger has a row for the later day and none for day 0
C37_Witness ==
    \E i \in DOMAIN tasks :
        /\ tasks[i].handler = "media"
        /\ tasks[i].charged
        /\ tasks[i].day = 0
        /\ Today(now) > 0
        /\ <<tasks[i].user, Today(now)>> \in DOMAIN db.usage
        /\ <<tasks[i].user, 0>> \notin DOMAIN db.usage

(* ------------------------------- C38 ---------------------------------- *)
\* the step is a run of /start for u (no upload moves in it) in which the
\* store answered and u was not premium
StartStep(u) ==
    /\ tasks' = tasks
    /\ last'.handler = "start"
    /\ last'.user = u
    /\ last'.outcome = "start"
    /\ ~last'.faulted
    /\ last'.type # "premium"

\* C38: the number of remaining free requests /start shows to a user who is
\* not premium is never negative: it is max(0, limit - today's count) in
\* every reachable state, also where today's count is above the limit.
C38_RemainingIsNeverNegative ==
    [][\A u \in Users :
          StartStep(u) =>
              /\ last'.free_requests >= 0
              /\ last'.free_requests =
                    Max(0, DAILY_FREE_REQUESTS(variant) - SelectUsage(db', u, now))]_vars

(* ------------------------------- C39 ---------------------------------- *)
\* the step is an activation for u: handle_successful_payment of
\* bot_simple.py, or activate_premium_subscription of database/models.py
ActivationStep(u) ==
    /\ last'.handler \in {"payment", "activate"}
    /\ last'.user = u

\* C39: an activation never shortens an entitlement: for a user who is
\* premium with end E when the payment is confirmed, the stored end after the
\* activation is not earlier than E, whatever payments came before (the
\* clock never goes back).
C39_ActivationNeverShortens ==
    [][\A u \in Users :
          (/\ ActivationStep(u)
           /\ u \in DOMAIN db.subs
           /\ db.subs[u].is_premium
           /\ db.subs[u].sub_end # <<>>)
          => /\ u \in DOMAIN db'.subs
             /\ db'.subs[u].sub_end # <<>>
             /\ db'.subs[u].sub_end[1] >= db.subs[u].sub_end[1]]_vars

\* a user who had paid before paid again at a later instant, with nothing
\* failing in the run: the stored subscription starts now and ends one
\* duration from now
C39_Witness ==
    /\ faults = 0
    /\ now > 0
    /\ last.handler = "payment"
    /\ Len(db.payments) = 2
    /\ db.payments[1] = last.user
    /\ db.payments[2] = last.user
    /\ db.subs[last.user] = ActiveSubscription(now, DURATION_DAYS)

====
